---------------------------- MODULE Spec2Model ----------------------------
(***************************************************************************)
(* A model of the Soundboard compressor pipeline: the settings model       *)
(* (audio_models.py), the bounded LRU memory cache (audio_cache.py) and    *)
(* the window's handlers that drive them (soundboard.py): construction and *)
(* settings load, dial / toggle / reset handlers, the disk cache, reload   *)
(* and play_sound.                                                         *)
(*                                                                         *)
(* Numbers.  A Python float is a record [k, v]: k = "fin" with v the value *)
(* in units of 1/10000 (the double nearest to v / 10000), k = "nzero" for  *)
(* -0.0, or k = "nan" / "inf" / "ninf" (v = 0).  Where the code computes   *)
(* with floats (the gain computer), they are the binary doubles            *)
(* themselves, see DoubleOf.  Python ints are TLA+                         *)
(* integers, Huge standing for every integer beyond the range of a float.  *)
(* A JSON value of the settings file is a record [t, v]: t = "missing"     *)
(* (key absent), "null", "str" / "list" (v = its length), "bool" (v = 0 /  *)
(* 1), "int" (v = the integer), "big" (an integer literal beyond the range *)
(* of a float, such as 10**400; v = 1 or -1, its sign), "float" (v in      *)
(* units of 1/10000), "nzero" (the literal -0.0), "nan", "inf", "ninf"     *)
(* (the literals NaN, Infinity and -Infinity, which json.load accepts).    *)
(***************************************************************************)
EXTENDS Integers, Sequences, FiniteSets, TLC

VARIABLES
    pc,                  \* "constructing" | "running" | "crashed" (an exception left __init__)
    compressor_settings, \* self.compressor_settings
    processed_cache,     \* self.processed_cache: [max_items, store]; store is LRU first, MRU last
    sound_index,         \* self.sound_index: clip -> 0 (no entry) or the content version decoded at load
    dials,               \* the raw QDial value of each DialControl
    toggle,              \* compressor_enabled_toggle.isChecked()
    updating_ui,         \* self._compressor_updating_ui
    settings_file,       \* settings.json: [exists, parses, data]
    disk_cache,          \* .processed_cache: a set of [file, sound], file = <<clip, stamp, signature>>
    files,               \* the sound files on disk: clip -> 0 (missing) or its modification stamp
    last,                \* the last handler that ran, and what play_sound did and played
    engine_runs,         \* clip -> "no" | "once" | "again": engine results since the last invalidation
    tainted,             \* clip -> TRUE once its file changed or a cache I/O step failed since then
    touched,             \* cache keys in order of their last touch, least recent first
    lru_pure,            \* TRUE while only get and put have been applied to the cache
    budget,              \* what the run has used of the bounds: [faults, sessions, hand_edits, file_edits]
    engine,              \* the last step of CompressorEngine that ran, its input and its result
    volume               \* the options menu and smart remute: [pycaw, muted, opt_smart_mute,
                         \* saved, opt_overlap, saved_overlap, remute_pending, timer]

vars == <<pc, compressor_settings, processed_cache, sound_index, dials, toggle,
          updating_ui, settings_file, disk_cache, files, last, engine_runs,
          tainted, touched, lru_pure, budget, engine, volume>>

(***************************************************************************)
(* Bounds of the model.                                                    *)
(***************************************************************************)
MaxRevision == 2      \* handlers that bump revision are explored up to this revision
MaxFileEdits == 1     \* sound files rewritten or removed per run
MaxHandEdits == 1     \* keys of settings.json edited by hand while the app is closed
MaxFaults == 1        \* injected I/O or engine failures per run
MaxSessions == 2      \* application starts per run
MaxFrames == 2
MaxCap == 4           \* capacities explored by the cache-only specification

Unit == 10 * 1000     \* 1.0 in units of 1/10000

(***************************************************************************)
(* Python floats.                                                          *)
(***************************************************************************)
Fin(v) == [k |-> "fin", v |-> v]
NegZero == [k |-> "nzero", v |-> 0]
IsFinite(x) == x.k \in {"fin", "nzero"}
NaN == [k |-> "nan", v |-> 0]
PosInf == [k |-> "inf", v |-> 0]
NegInf == [k |-> "ninf", v |-> 0]

\* a > b on Python floats (every comparison with NaN is False)
Gt(a, b) ==
    CASE a.k = "nan" \/ b.k = "nan" -> FALSE
      [] a.k = "inf" -> b.k # "inf"
      [] a.k = "ninf" -> FALSE
      [] b.k = "inf" -> FALSE
      [] b.k = "ninf" -> TRUE
      [] OTHER -> a.v > b.v

\* max(a, b) and min(a, b) of Python: the first argument is kept unless the
\* second is strictly greater (smaller)
PyMax(a, b) == IF Gt(b, a) THEN b ELSE a
PyMin(a, b) == IF Gt(a, b) THEN b ELSE a

IntMax(a, b) == IF b > a THEN b ELSE a

\* int(x) of a finite float: truncation toward zero
Trunc(v) == IF v >= 0 THEN v \div Unit ELSE -((-v) \div Unit)

\* n / d rounded to the nearest integer, ties to even, d > 0
RoundQuot(n, d) ==
    LET m == IF n >= 0 THEN n ELSE -n
        q == m \div d
        r == m % d
        up == IF 2 * r < d THEN q
              ELSE IF 2 * r > d THEN q + 1
              ELSE IF q % 2 = 0 THEN q ELSE q + 1
    IN  IF n >= 0 THEN up ELSE -up

(***************************************************************************)
(* JSON values of the settings record.                                     *)
(***************************************************************************)
J(t, v) == [t |-> t, v |-> v]
Missing == J("missing", 0)

FloatKeys == {"input_gain_db", "threshold_db", "ratio", "attack_ms",
              "release_ms", "makeup_gain_db", "output_ceiling_db"}
IntKeys == {"cache_max_items", "revision"}
Keys == {"enabled"} \cup FloatKeys \cup IntKeys   \* the key is "compressor_" + name

EmptyData == [key \in Keys |-> Missing]

(***************************************************************************)
(* audio_models.py                                                         *)
(***************************************************************************)
DEFAULT_COMPRESSOR_SETTINGS ==
    [enabled |-> TRUE,
     input_gain_db |-> Fin(0),
     threshold_db |-> Fin(-18 * Unit),
     ratio |-> Fin(4 * Unit),
     attack_ms |-> Fin(10 * Unit),
     release_ms |-> Fin(120 * Unit),
     makeup_gain_db |-> Fin(0),
     output_ceiling_db |-> Fin(-Unit),
     cache_max_items |-> 32,
     revision |-> 0]

\* isinstance(value, (int, float)); bool is a subclass of int
IsNumber(j) == j.t \in {"bool", "int", "big", "float", "nzero", "nan", "inf", "ninf"}

\* float(value) raises OverflowError on an int too large for a float
FloatRaises(j) == j.t = "big"

\* the Python float a numeric JSON value converts to: float(value), when it
\* does not raise
JsonFloat(j) ==
    CASE j.t = "float" -> Fin(j.v)
      [] j.t = "nzero" -> NegZero
      [] j.t = "nan" -> NaN
      [] j.t \in {"inf", "big"} -> IF j.v >= 0 THEN PosInf ELSE NegInf
      [] j.t = "ninf" -> NegInf
      [] OTHER -> Fin(j.v * Unit)          \* int, bool

\* float(_num(data.get(key), fallback)), fallback already a float
_num(j, fallback) == IF IsNumber(j) THEN JsonFloat(j) ELSE fallback

\* int(x) of a float raises ValueError on NaN and OverflowError on an infinity
IntRaises(x) == ~IsFinite(x)
IntOf(x) == IF IsFinite(x) THEN Trunc(x.v) ELSE 0

\* bool(data.get("compressor_enabled", default)): Python truthiness
Truthy(j, default) ==
    CASE j.t = "missing" -> default
      [] j.t \in {"null", "nzero"} -> FALSE
      [] j.t \in {"str", "list", "bool", "int", "float"} -> j.v # 0
      [] OTHER -> TRUE                     \* big, nan, inf, ninf

\* the integer fields go through int(_num(value, default)), default an int:
\* a float is truncated, an int is kept whatever its size
Huge == 2147483647
IntField(j, default) == _num(j, Fin(default * Unit))
IntFieldRaises(j, default) == j.t # "big" /\ IntRaises(IntField(j, default))
IntFieldOf(j, default) ==
    IF j.t = "big" THEN j.v * Huge ELSE IntOf(IntField(j, default))

compressor_settings_from_dict_raises(data) ==
    \/ \E key \in FloatKeys : FloatRaises(data[key])
    \/ \E key \in IntKeys :
           IntFieldRaises(data[key], DEFAULT_COMPRESSOR_SETTINGS[key])

\* mutant: the loaded values are not clamped
compressor_settings_from_dict_unclamped(data) ==
    LET d == DEFAULT_COMPRESSOR_SETTINGS
    IN  [enabled |-> Truthy(data["enabled"], d.enabled),
         input_gain_db |-> _num(data["input_gain_db"], d.input_gain_db),
         threshold_db |-> _num(data["threshold_db"], d.threshold_db),
         ratio |-> _num(data["ratio"], d.ratio),
         attack_ms |-> _num(data["attack_ms"], d.attack_ms),
         release_ms |-> _num(data["release_ms"], d.release_ms),
         makeup_gain_db |-> _num(data["makeup_gain_db"], d.makeup_gain_db),
         output_ceiling_db |-> _num(data["output_ceiling_db"], d.output_ceiling_db),
         cache_max_items |-> IntFieldOf(data["cache_max_items"], d.cache_max_items),
         revision |-> IntFieldOf(data["revision"], d.revision)]

\* the value returned when no conversion raises
compressor_settings_from_dict(data) ==
    LET d == DEFAULT_COMPRESSOR_SETTINGS
        one == Fin(Unit)
    IN  [enabled |-> Truthy(data["enabled"], d.enabled),
         input_gain_db |-> _num(data["input_gain_db"], d.input_gain_db),
         threshold_db |-> _num(data["threshold_db"], d.threshold_db),
         ratio |-> PyMax(one, _num(data["ratio"], d.ratio)),
         attack_ms |-> PyMax(one, _num(data["attack_ms"], d.attack_ms)),
         release_ms |-> PyMax(one, _num(data["release_ms"], d.release_ms)),
         makeup_gain_db |-> _num(data["makeup_gain_db"], d.makeup_gain_db),
         output_ceiling_db |-> _num(data["output_ceiling_db"], d.output_ceiling_db),
         cache_max_items |->
             IntMax(1, IntFieldOf(data["cache_max_items"], d.cache_max_items)),
         revision |-> IntMax(0, IntFieldOf(data["revision"], d.revision))]

\* mutant: floats written with three decimals
FloatJson_rounded(x) ==
    IF x.k = "fin" THEN J("float", (x.v \div 10) * 10) ELSE J(x.k, 0)

\* float(settings.field) as json.dump writes it
FloatJson(x) ==
    CASE x.k = "fin" -> J("float", x.v)
      [] x.k = "nzero" -> J("nzero", 0)
      [] x.k = "nan" -> J("nan", 0)
      [] x.k = "inf" -> J("inf", 0)
      [] OTHER -> J("ninf", 0)

compressor_settings_to_dict(s) ==
    [key \in Keys |->
        CASE key = "enabled" -> J("bool", IF s.enabled THEN 1 ELSE 0)
          [] key \in IntKeys -> IF s[key] >= Huge THEN J("big", 1) ELSE J("int", s[key])
          [] OTHER -> FloatJson(s[key])]

(***************************************************************************)
(* audio_cache.py: ProcessedSoundCache.  The OrderedDict is a sequence of  *)
(* [key, sound], oldest first.                                             *)
(***************************************************************************)
StoreKeys(store) == {store[i].key : i \in 1..Len(store)}
StoreIndex(store, key) == CHOOSE i \in 1..Len(store) : store[i].key = key
Without(store, key) == SelectSeq(store, LAMBDA e : e.key # key)

\* OrderedDict.move_to_end(key)
move_to_end(store, key) ==
    Append(Without(store, key), store[StoreIndex(store, key)])

\* while len(store) > max_items: store.popitem(last=False)
RECURSIVE Evict(_, _)
Evict(store, max_items) ==
    IF Len(store) > max_items THEN Evict(Tail(store), max_items) ELSE store

ProcessedSoundCache(max_items) ==
    [max_items |-> IntMax(1, max_items), store |-> <<>>]

cache_hit(cache, key) == key \in StoreKeys(cache.store)
cache_item(cache, key) == cache.store[StoreIndex(cache.store, key)].sound

\* mutant: a read that does not touch the entry
cache_get_no_touch(cache, key) == cache

\* the cache after get(key)
cache_get(cache, key) ==
    IF cache_hit(cache, key)
    THEN [cache EXCEPT !.store = move_to_end(cache.store, key)]
    ELSE cache

\* mutant: put inserts and evicts nothing
cache_put_unbounded(cache, key, sound) ==
    [cache EXCEPT !.store = Append(Without(cache.store, key),
                                   [key |-> key, sound |-> sound])]

\* store[key] = sound keeps the position of an existing key, then move_to_end
cache_put(cache, key, sound) ==
    LET entry == [key |-> key, sound |-> sound]
        set == IF key \in StoreKeys(cache.store)
               THEN [cache.store EXCEPT ![StoreIndex(cache.store, key)] = entry]
               ELSE Append(cache.store, entry)
    IN  [cache EXCEPT !.store = Evict(move_to_end(set, key), cache.max_items)]

cache_clear(cache) == [cache EXCEPT !.store = <<>>]

\* mutant: the capacity stays what it was
cache_set_capacity_fixed(cache, max_items) == cache

\* mutant: one entry at most is evicted
cache_set_capacity_once(cache, max_items) ==
    LET cap == IntMax(1, max_items)
    IN  [max_items |-> cap,
         store |-> IF Len(cache.store) > cap THEN Tail(cache.store) ELSE cache.store]

\* mutant: the capacity is set and nothing is evicted
cache_set_capacity_lazy(cache, max_items) ==
    [max_items |-> IntMax(1, max_items), store |-> cache.store]

cache_set_capacity(cache, max_items) ==
    LET cap == IntMax(1, max_items)
    IN  [max_items |-> cap, store |-> Evict(cache.store, cap)]

(***************************************************************************)
(* soundboard.py: sounds.  A pygame Sound is [kind, clip, src, sig]: the   *)
(* raw clip decoded from version src of the file, or the engine's output   *)
(* for that raw clip under the settings whose signature is sig.            *)
(***************************************************************************)
Clips == {"A", "B"}

NoSound == [kind |-> "none", clip |-> "", src |-> 0, sig |-> <<>>]
RawSound(clip, src) == [kind |-> "raw", clip |-> clip, src |-> src, sig |-> <<>>]
\* A write of a cache file that fails leaves a file behind (wave.open has
\* created it, and leaving the with block closes it): a well-formed WAVE of no
\* frames when no frame reached the file, or a header that claims frames the
\* file does not hold.  What pygame.mixer.Sound makes of such a file is
\* decided by the decoder, which is no part of these sources, so both of its
\* answers are kept: Corrupt, the file is rejected (pygame.error), and
\* Truncated, the file is accepted as a sound short of the frames of sound.
Corrupt(clip) == [kind |-> "corrupt", clip |-> clip, src |-> 0, sig |-> <<>>]
Truncated(sound) ==
    [kind |-> "empty", clip |-> sound.clip, src |-> sound.src, sig |-> sound.sig]

\* CompressorEngine.process(sound, settings) under settings of signature sig
process(sound, sig) == [kind |-> "proc", clip |-> sound.clip, src |-> sound.src, sig |-> sig]

(***************************************************************************)
(* audio_processing.py: CompressorEngine.  A native buffer is a sequence   *)
(* of integer samples of a dtype [kind, bits]; a float32 sample is the     *)
(* fraction [num, den] it holds, den a power of two up to 2^24 (every      *)
(* float32 that _sound_to_float produces is a multiple of 2^-24).  The     *)
(* arithmetic is that of float32: 24 bits kept, each operation rounded to  *)
(* the nearest value, ties to the even one.                                *)
(***************************************************************************)
DTypes == {[kind |-> k, bits |-> b] : k \in {"u", "i"}, b \in {8, 16}}

RECURSIVE Pow2(_)
Pow2(n) == IF n = 0 THEN 1 ELSE 2 * Pow2(n - 1)

\* np.iinfo(dtype).max and .min
iinfo_max(dtype) ==
    IF dtype.kind = "u" THEN Pow2(dtype.bits) - 1 ELSE Pow2(dtype.bits - 1) - 1
iinfo_min(dtype) == IF dtype.kind = "u" THEN 0 ELSE -Pow2(dtype.bits - 1)

Frac(n, d) == [num |-> n, den |-> d]

\* np.clip(x, -1.0, 1.0)
Clip1(x) ==
    IF x.num > x.den THEN Frac(1, 1)
    ELSE IF x.num < -x.den THEN Frac(-1, 1)
    ELSE x

Two24 == 16777216                        \* 2^24

RECURSIVE BitLength(_)
BitLength(n) == IF n = 0 THEN 0 ELSE 1 + BitLength(n \div 2)

\* the float32 quotient x / d, 0 < x < d, as [m, e], the value m * 2^-e: the
\* quotient is developed bit by bit until m holds 24 bits (r the remainder),
\* then rounded on what is left
RECURSIVE Float32Bits(_, _, _, _)
Float32Bits(r, d, m, e) ==
    IF 2 * m >= Two24
    THEN [m |-> IF 2 * r > d \/ (2 * r = d /\ m % 2 = 1) THEN m + 1 ELSE m, e |-> e]
    ELSE IF 2 * r >= d THEN Float32Bits(2 * r - d, d, 2 * m + 1, e + 1)
    ELSE Float32Bits(2 * r, d, 2 * m, e + 1)

\* (float32(x) / max_int) * 2.0 - 1.0 in units of 2^-24, line 71: the
\* doubling is exact; the difference is exact from 0.5 up and rounded to a
\* multiple of 2^-24 below
UnsignedToFloat(x, max_int) ==
    IF x = 0 THEN -Two24
    ELSE IF x = max_int THEN Two24
    ELSE LET q == Float32Bits(x, max_int, 0, 0)
         IN  IF q.e = 24 THEN 2 * q.m - Two24
             ELSE RoundQuot(q.m, Pow2(q.e - 25)) - Two24

\* _sound_to_float, lines 69-74
_sound_to_float(arr, dtype) ==
    IF dtype.kind = "u"
    THEN [i \in DOMAIN arr |-> Frac(UnsignedToFloat(arr[i], iinfo_max(dtype)), Two24)]
    ELSE [i \in DOMAIN arr |->
             Frac(arr[i], IntMax(-iinfo_min(dtype), iinfo_max(dtype)))]

\* astype(integer dtype) of the float32 product of M / 2^sh, M >= 0, and
\* max_int < 2^16: with k its integer part and F / 2^sh its fraction (the
\* product is split at 2^13 so that no part leaves 32-bit integers), the
\* float32 product is k + 1 when the fraction is within half a unit of the
\* last of its 24 bits from 1, and the conversion truncates
AsInt(M, sh, max_int) ==
    LET lo == (M % 8192) * max_int
        t == (M \div 8192) * max_int + lo \div 8192
        k == t \div Pow2(sh - 13)
        F == (t % Pow2(sh - 13)) * 8192 + (lo % 8192)
    IN  IF 2 * (Pow2(sh) - F) <= Pow2(BitLength(k) + sh - 24) THEN k + 1 ELSE k

\* np.clip(x, -1.0, 1.0) in units of 2^-24
Clipped24(x) == Clip1(x).num * (Two24 \div Clip1(x).den)

\* (x + 1.0) in units of 2^-24: a float32 above 1.0 is a multiple of 2^-23
PlusOne24(n) == IF n > 0 THEN 2 * RoundQuot(n + Two24, 2) ELSE n + Two24

\* _float_to_sound, lines 81-87: ((x + 1.0) * 0.5 * max_int).astype, or
\* (x * max_int).astype, which truncates toward zero
_float_to_sound(data, dtype) ==
    IF dtype.kind = "u"
    THEN [i \in DOMAIN data |->
             AsInt(PlusOne24(Clipped24(data[i])), 25, iinfo_max(dtype))]
    ELSE [i \in DOMAIN data |->
             IF Clipped24(data[i]) >= 0
             THEN AsInt(Clipped24(data[i]), 24, iinfo_max(dtype))
             ELSE -AsInt(-Clipped24(data[i]), 24, iinfo_max(dtype))]

(***************************************************************************)
(* Python floats as the binary doubles they are.  A double is [k, neg, m,  *)
(* e]: k is "num", "zero", "inf" or "nan"; a "num" has the value           *)
(* (-1)^neg * m * 2^e with m of exactly 53 bits, held as three limbs of 24 *)
(* bits, lowest first.  Intermediate results are six limbs wide.  Every    *)
(* operation rounds to nearest, ties to even, as the hardware does.        *)
(***************************************************************************)
Limb == Pow2(24)

Widen(a) ==
    LET at(i) == IF i <= Len(a) THEN a[i] ELSE 0
    IN  <<at(1), at(2), at(3), at(4), at(5), at(6)>>
LimbsOf(n) == Widen(<<n % Limb, n \div Limb>>)

LAdd(a, b) ==
    LET carry(i) == \E j \in 1..(i - 1) :
                        /\ a[j] + b[j] >= Limb
                        /\ \A k \in (j + 1)..(i - 1) : a[k] + b[k] >= Limb - 1
        sum(i) == (a[i] + b[i] + IF carry(i) THEN 1 ELSE 0) % Limb
    IN  <<sum(1), sum(2), sum(3), sum(4), sum(5), sum(6)>>
\* a - b for a >= b
LSub(a, b) ==
    LET borrow(i) == \E j \in 1..(i - 1) :
                         /\ a[j] < b[j]
                         /\ \A k \in (j + 1)..(i - 1) : a[k] <= b[k]
        diff(i) == (a[i] - b[i] - (IF borrow(i) THEN 1 ELSE 0) + Limb) % Limb
    IN  <<diff(1), diff(2), diff(3), diff(4), diff(5), diff(6)>>
\* 1, 0 or -1 as a is above, equal to or below b
LCmp(a, b) ==
    LET d == {i \in 1..6 : a[i] # b[i]}
    IN  IF d = {} THEN 0
        ELSE IF \E i \in d : a[i] > b[i] /\ \A j \in d : j <= i THEN 1 ELSE -1
LBitLength(a) ==
    LET nz == {i \in 1..6 : a[i] # 0}
    IN  IF nz = {} THEN 0
        ELSE LET top == CHOOSE i \in nz : \A j \in nz : j <= i
             IN  24 * (top - 1) + BitLength(a[top])
\* a * 2^n and a \div 2^n
LShl(a, n) ==
    LET q == n \div 24
        r == n % 24
        at(i) == IF i >= 1 THEN a[i] ELSE 0
        limb(i) == (at(i - q) % Pow2(24 - r)) * Pow2(r) + at(i - q - 1) \div Pow2(24 - r)
    IN  <<limb(1), limb(2), limb(3), limb(4), limb(5), limb(6)>>
LShr(a, n) ==
    LET q == n \div 24
        r == n % 24
        at(i) == IF i <= 6 THEN a[i] ELSE 0
        limb(i) == at(i + q) \div Pow2(r) + (at(i + q + 1) % Pow2(r)) * Pow2(24 - r)
    IN  <<limb(1), limb(2), limb(3), limb(4), limb(5), limb(6)>>

\* x * 2^e for x > 0, rounded to 53 bits: [m, e]; sticky says that the exact
\* value lies above x * 2^e by less than 2^e
Round53(x, e, sticky) ==
    LET L == LBitLength(x)
        sh == L - 53
        top == LShr(x, sh)
        half == LShr(x, sh - 1)[1] % 2 = 1
        odd == top[1] % 2 = 1
        rest == sticky \/ LShl(LShr(x, sh - 1), sh - 1) # x
        inc == IF half /\ (rest \/ odd) THEN LAdd(top, LimbsOf(1)) ELSE top
    IN  IF L <= 53 THEN [m |-> SubSeq(LShl(x, 53 - L), 1, 3), e |-> e - (53 - L)]
        ELSE IF LBitLength(inc) = 54
        THEN [m |-> SubSeq(LShr(inc, 1), 1, 3), e |-> e + sh + 1]
        ELSE [m |-> SubSeq(inc, 1, 3), e |-> e + sh]

DNum(neg, r) == [k |-> "num", neg |-> neg, m |-> r.m, e |-> r.e]
DZero(neg) == [k |-> "zero", neg |-> neg, m |-> <<>>, e |-> 0]
DInf(neg) == [k |-> "inf", neg |-> neg, m |-> <<>>, e |-> 0]
DNaN == [k |-> "nan", neg |-> FALSE, m |-> <<>>, e |-> 0]

\* the binary expansion of a / Unit, 12 bits at a time: [x, r] after n more
\* groups, x the bits so far and r the remainder
RECURSIVE Groups(_, _, _)
Groups(x, r, n) ==
    IF n = 0 THEN [x |-> x, r |-> r]
    ELSE Groups(LAdd(LShl(x, 12), LimbsOf((r * 4096) \div Unit)), (r * 4096) % Unit, n - 1)
\* the double a float of the settings is: the nearest one to v / Unit, as
\* float() of a JSON number or of a dial position gives it
DoubleOf(x) ==
    CASE x.k = "nan" -> DNaN
      [] x.k = "inf" -> DInf(FALSE)
      [] x.k = "ninf" -> DInf(TRUE)
      [] x.k = "nzero" -> DZero(TRUE)
      [] x.v = 0 -> DZero(FALSE)
      [] OTHER ->
           LET a == IF x.v < 0 THEN -x.v ELSE x.v
               q == Groups(LimbsOf(a \div Unit), a % Unit, 6)
           IN  DNum(x.v < 0, Round53(q.x, -72, q.r # 0))

\* a + b, a - b and a / b of Python floats
DAdd(a, b) ==
    CASE a.k = "nan" \/ b.k = "nan" -> DNaN
      [] a.k = "inf" /\ b.k = "inf" -> IF a.neg = b.neg THEN a ELSE DNaN
      [] a.k = "inf" -> a
      [] b.k = "inf" -> b
      [] a.k = "zero" /\ b.k = "zero" -> DZero(a.neg /\ b.neg)
      [] a.k = "zero" -> b
      [] b.k = "zero" -> a
      [] a.e - b.e > 64 -> a
      [] b.e - a.e > 64 -> b
      [] OTHER ->
           LET lo == IF a.e < b.e THEN a.e ELSE b.e
               x == LShl(Widen(a.m), a.e - lo)
               y == LShl(Widen(b.m), b.e - lo)
               c == LCmp(x, y)
           IN  IF a.neg = b.neg THEN DNum(a.neg, Round53(LAdd(x, y), lo, FALSE))
               ELSE IF c = 0 THEN DZero(FALSE)
               ELSE IF c > 0 THEN DNum(a.neg, Round53(LSub(x, y), lo, FALSE))
               ELSE DNum(b.neg, Round53(LSub(y, x), lo, FALSE))
DNeg(a) == IF a.k = "nan" THEN a ELSE [a EXCEPT !.neg = ~a.neg]
DSub(a, b) == DAdd(a, DNeg(b))

\* n more bits of the quotient r / d for r < d: [q, r]
RECURSIVE QuotByte(_, _, _, _)
QuotByte(q, r, d, n) ==
    IF n = 0 THEN [q |-> q, r |-> r]
    ELSE IF LCmp(LAdd(r, r), d) >= 0
    THEN QuotByte(2 * q + 1, LSub(LAdd(r, r), d), d, n - 1)
    ELSE QuotByte(2 * q, LAdd(r, r), d, n - 1)
\* n more bytes of it
RECURSIVE QuotBits(_, _, _, _)
QuotBits(q, r, d, n) ==
    IF n = 0 THEN [q |-> q, r |-> r]
    ELSE LET byte == QuotByte(0, r, d, 8)
         IN  QuotBits(LAdd(LShl(q, 8), LimbsOf(byte.q)), byte.r, d, n - 1)
DDiv(a, b) ==
    CASE a.k = "nan" \/ b.k = "nan" -> DNaN
      [] a.k = "inf" -> IF b.k = "inf" THEN DNaN ELSE DInf(a.neg # b.neg)
      [] b.k = "inf" -> DZero(a.neg # b.neg)
      [] b.k = "zero" -> DNaN
      [] a.k = "zero" -> DZero(a.neg # b.neg)
      [] OTHER ->
           LET x == Widen(a.m)
               d == Widen(b.m)
               q == IF LCmp(x, d) >= 0 THEN QuotBits(LimbsOf(1), LSub(x, d), d, 7)
                    ELSE QuotBits(LimbsOf(0), x, d, 7)
           IN  DNum(a.neg # b.neg, Round53(q.q, a.e - b.e - 56, q.r # LimbsOf(0)))

\* a > b and a <= b of Python floats: every comparison with NaN is False
DGt(a, b) ==
    LET above(x, y) == x.e > y.e \/ (x.e = y.e /\ LCmp(Widen(x.m), Widen(y.m)) > 0)
    IN  CASE a.k = "nan" \/ b.k = "nan" -> FALSE
          [] a.k = "zero" /\ b.k = "zero" -> FALSE
          [] a.k = "inf" -> ~a.neg /\ ~(b.k = "inf" /\ ~b.neg)
          [] b.k = "inf" -> b.neg
          [] a.k = "zero" -> b.neg
          [] b.k = "zero" -> ~a.neg
          [] a.neg # b.neg -> b.neg
          [] OTHER -> IF a.neg THEN above(b, a) ELSE above(a, b)
DLe(a, b) == a.k # "nan" /\ b.k # "nan" /\ ~DGt(a, b)

\* gain[i] = self._db_to_linear(reduction_db) as the float32 array gain holds
\* it (lines 50, 61 and 93-95), by its place relative to 1.0: the float32
\* nearest to 10.0 ** (db / 20.0) is 1.0 for db from UnityLow
\* (-2.588596875570301e-07) to UnityHigh (5.177193519702013e-07), smaller
\* below that range and larger above it, and NaN for a NaN
UnityLow == [k |-> "num", neg |-> TRUE, m |-> <<1774542, 6237426, 17>>, e |-> -74]
UnityHigh == [k |-> "num", neg |-> FALSE, m |-> <<1290783, 6237413, 17>>, e |-> -73]
GainStored(db) ==
    CASE db.k = "nan" -> "nan"
      [] DGt(db, UnityHigh) -> "above"
      [] DGt(UnityLow, db) -> "below"
      [] OTHER -> "one"
UnityGain == "one"                       \* np.ones: gain[i] = 1.0

\* _compressor_gain, the body of the loop for one frame, lines 55-61, in the
\* doubles the code computes with.  env_db is the value line 54 assigned:
\* the envelope follower and the logarithm of lines 52-54 are not computed
\* here, the envelope in dB enters as a double.  [reduced, reduction_db, gain]
_compressor_gain(env_db, settings) ==
    LET threshold == DoubleOf(settings.threshold_db)
        ratio == DoubleOf(PyMax(Fin(Unit), settings.ratio))
        over_db == DSub(env_db, threshold)
        compressed_db == DAdd(threshold, DDiv(over_db, ratio))
        reduction_db == DSub(compressed_db, env_db)
    IN  IF DLe(env_db, threshold)
        THEN [reduced |-> FALSE, reduction_db |-> DZero(FALSE), gain |-> UnityGain]
        ELSE [reduced |-> TRUE, reduction_db |-> reduction_db,
              gain |-> GainStored(reduction_db)]

(***************************************************************************)
(* The shape of what process handles.  A sound is [id, dtype, shape]: id   *)
(* names the Sound object, dtype the sample type of its array, shape the   *)
(* shape of pygame.sndarray.array(sound): <<frames>> on a mono mixer,      *)
(* <<frames, channels>> otherwise.  An array is [dtype, shape].            *)
(***************************************************************************)
Float32 == [kind |-> "f", bits |-> 32]
SoundDTypes ==
    {[kind |-> k, bits |-> b] : k \in {"u", "i"}, b \in {8, 16, 32}} \cup {Float32}

Size(shape) == IF Len(shape) = 1 THEN shape[1] ELSE shape[1] * shape[2]

\* 10.0 ** (float(db) / 20.0) raises OverflowError above the float range
\* (db >= 6165.0944); at an infinity or NaN it returns inf, 0.0 or NaN
OverflowDb == 61650944
_db_to_linear_raises(db) == db.k = "fin" /\ db.v >= OverflowDb

\* numpy broadcasting of two shapes of one or two axes; <<>> when the shapes
\* do not broadcast (ValueError)
BroadcastAxis(m, n) == IF m = n \/ n = 1 THEN m ELSE IF m = 1 THEN n ELSE -1
Broadcast(a, b) ==
    LET a2 == IF Len(a) = 1 THEN <<1, a[1]>> ELSE a
        b2 == IF Len(b) = 1 THEN <<1, b[1]>> ELSE b
        r1 == BroadcastAxis(a2[1], b2[1])
        r2 == BroadcastAxis(a2[2], b2[2])
    IN  IF r1 = -1 \/ r2 = -1 THEN <<>>
        ELSE IF Len(a) = 1 /\ Len(b) = 1 THEN <<r2>>
        ELSE <<r1, r2>>

\* the shape of level, line 27: np.max(np.abs(data), axis=1) or np.abs(data)
level_shape(shape) == IF Len(shape) = 2 THEN <<shape[1]>> ELSE shape

\* the shape of gain, line 50: np.ones(level.shape[0])
gain_shape(level) == <<level[1]>>

\* _apply_chain on the shape of samples, lines 26-38: the shape of the
\* float32 array it returns, <<>> when a broadcast fails
_apply_chain_shape(shape) ==
    IF Len(shape) = 2
    THEN Broadcast(shape, <<gain_shape(level_shape(shape))[1], 1>>)
    ELSE Broadcast(shape, gain_shape(level_shape(shape)))

\* _apply_chain raises when one of its three _db_to_linear calls overflows
_apply_chain_raises(shape, settings) ==
    \/ _db_to_linear_raises(settings.input_gain_db)
    \/ _db_to_linear_raises(settings.makeup_gain_db)
    \/ _db_to_linear_raises(settings.output_ceiling_db)
    \/ _apply_chain_shape(shape) = <<>>

\* the dtype of scaled in _float_to_sound, lines 81-89
scaled_dtype_float(original_dtype) == Float32

scaled_dtype(original_dtype) ==
    IF original_dtype.kind \in {"u", "i", "b"} THEN original_dtype ELSE Float32

\* pygame.sndarray.make_sound(scaled): a new Sound over the array
make_sound(scaled) == [id |-> "made", dtype |-> scaled.dtype, shape |-> scaled.shape]

\* CompressorEngine.process on a sound, lines 15-21: [raised, sound]
engine_process(sound, settings) ==
    IF Size(sound.shape) = 0
    THEN [raised |-> FALSE, sound |-> sound]
    ELSE IF _apply_chain_raises(sound.shape, settings)
    THEN [raised |-> TRUE, sound |-> sound]
    ELSE [raised |-> FALSE,
          sound |-> make_sound([dtype |-> scaled_dtype(sound.dtype),
                                shape |-> _apply_chain_shape(sound.shape)])]

(***************************************************************************)
(* soundboard.py: DialControl.  specs of _build_compressor_panel, the      *)
(* range in raw dial steps (value * 10^decimals).                          *)
(***************************************************************************)
DialAttrs == FloatKeys

DialFactor(attr) == IF attr \in {"attack_ms", "release_ms"} THEN 1 ELSE 10

DialMinRaw(attr) ==
    CASE attr = "input_gain_db" -> -240
      [] attr = "threshold_db" -> -480
      [] attr = "ratio" -> 10
      [] attr = "attack_ms" -> 1
      [] attr = "release_ms" -> 10
      [] attr = "makeup_gain_db" -> -120
      [] attr = "output_ceiling_db" -> -240

DialMaxRaw(attr) ==
    CASE attr = "input_gain_db" -> 240
      [] attr = "threshold_db" -> 0
      [] attr = "ratio" -> 200
      [] attr = "attack_ms" -> 250
      [] attr = "release_ms" -> 1000
      [] attr = "makeup_gain_db" -> 240
      [] attr = "output_ceiling_db" -> 0

\* raw_value / self._factor, as a float
DialValue(attr, raw) == Fin(raw * (Unit \div DialFactor(attr)))

\* int(round(x)) of x = n / d, d > 0: Python rounds a tie to the even integer
RoundDiv(n, d) ==
    LET q == n \div d
        r == n % d
    IN  IF 2 * r < d THEN q
        ELSE IF 2 * r > d THEN q + 1
        ELSE IF q % 2 = 0 THEN q ELSE q + 1

\* DialControl.set_value: the raw value the dial is set to (signals blocked)
set_value(attr, value) ==
    LET lo == DialValue(attr, DialMinRaw(attr))
        hi == DialValue(attr, DialMaxRaw(attr))
        clamped == PyMin(hi, PyMax(lo, value))
    IN  RoundDiv(clamped.v * DialFactor(attr), Unit)

\* QDial after setRange in DialControl.__init__: the initial value 0 is
\* brought into the range before any slot is connected
InitialDials ==
    [attr \in DialAttrs |->
        IF DialMinRaw(attr) > 0 THEN DialMinRaw(attr)
        ELSE IF DialMaxRaw(attr) < 0 THEN DialMaxRaw(attr) ELSE 0]

(***************************************************************************)
(* soundboard.py: signature and disk cache.                                *)
(***************************************************************************)
\* The double nearest to a / 10000, a > 0, against a / 10000 itself.  With
\* a / 625 scaled by 2^n to the 53 bits of a double, what the double drops is
\* DoubleRem(a) / 625 of its last bit: nothing when it is 0, and the double
\* lies above a / 10000 when it is more than a half.
RECURSIVE Pow2Mod625(_)
Pow2Mod625(n) == IF n = 0 THEN 1 ELSE (2 * Pow2Mod625(n - 1)) % 625
RECURSIVE ShiftTo625(_, _)
ShiftTo625(a, s) == IF a >= 625 THEN s ELSE ShiftTo625(2 * a, s + 1)
DoubleRem(a) ==
    LET n == IF a >= 625 THEN 53 - BitLength(a \div 625) ELSE 52 + ShiftTo625(a, 0)
    IN  ((a % 625) * Pow2Mod625(n)) % 625

\* the thousandths f"{x:.3f}" prints for the double nearest to a / 10000,
\* a >= 0: the decimal value of the double is rounded, so a 5 in the fourth
\* decimal goes the way the double lies, and to the even digit when the
\* double holds a / 10000 exactly
Thousandths(a) ==
    IF a % 10 # 5 \/ DoubleRem(a) = 0 THEN RoundDiv(a, 10)
    ELSE IF 2 * DoubleRem(a) > 625 THEN a \div 10 + 1
    ELSE a \div 10

\* f"{x:.3f}": the value in thousandths and the sign printed, or the text
\* nan / inf / -inf
Fmt3(x) == IF IsFinite(x)
           THEN [k |-> "fin",
                 v |-> IF x.v >= 0 THEN Thousandths(x.v) ELSE -Thousandths(-x.v),
                 neg |-> x.v < 0 \/ x.k = "nzero"]   \* "-0.000" is not "0.000"
           ELSE [k |-> x.k, v |-> 0, neg |-> FALSE]

\* mutant: a signature that also carries the revision
_compressor_signature_revised(s) ==
    <<Fmt3(s.input_gain_db), Fmt3(s.threshold_db), Fmt3(s.ratio), Fmt3(s.attack_ms),
      Fmt3(s.release_ms), Fmt3(s.makeup_gain_db), Fmt3(s.output_ceiling_db), s.revision>>

_compressor_signature(s) ==
    <<Fmt3(s.input_gain_db), Fmt3(s.threshold_db), Fmt3(s.ratio), Fmt3(s.attack_ms),
      Fmt3(s.release_ms), Fmt3(s.makeup_gain_db), Fmt3(s.output_ceiling_db)>>

\* mutant: a file name that leaves the stamp out of the digest
_disk_cache_filename_unstamped(clip, stamp, signature) == <<clip, 0, signature>>

\* mutant: a file name that leaves the signature out of the digest
_disk_cache_filename_unsigned(clip, stamp, signature) == <<clip, stamp, <<>>>>

\* the digest of "file|stamp|signature", taken as injective; a failed stat
\* (the file is missing: stamp 0 here) gives the sentinel stamp "0:0"
_disk_cache_filename(clip, stamp, signature) == <<clip, stamp, signature>>

DiskFiles(disk) == {e.file : e \in disk}
DiskEntry(disk, file) == CHOOSE e \in disk : e.file = file

\* wave.open(cache_file, "wb") ... writeframes: the file is replaced
DiskWrite(disk, file, sound) ==
    {e \in disk : e.file # file} \cup {[file |-> file, sound |-> sound]}

\* mutant: the folder is not cleared
_clear_disk_cache_skipped(disk, stuck) == disk

\* mutant: the loop ends at the first file that cannot be removed
_clear_disk_cache_abandoned(disk, stuck) == IF stuck = {} THEN {} ELSE disk

\* _clear_disk_cache: os.remove of every .wav of the folder; stuck are the
\* files whose os.remove raises OSError (all of them when os.listdir raises):
\* the error is logged and the file stays
_clear_disk_cache(disk, stuck) == {e \in disk : e.file \in stuck}

\* the removal failures a clear of this folder can meet
StuckSets(disk) == SUBSET DiskFiles(disk)

(***************************************************************************)
(* soundboard.py: play_sound, lines 1216-1234.  fault names the one step   *)
(* of this call that fails, if any:                                        *)
(*   mem          processed_cache.get raises                               *)
(*   load_error   decoding the cache file raises pygame.error / OSError    *)
(*   load_raise   the disk load raises any other exception                 *)
(*   engine       CompressorEngine.process raises                          *)
(*   store_error  wave.open raises OSError / wave.Error: no file written   *)
(*   store_partial, store_empty  writeframes raises OSError part way: the  *)
(*                wave module closes the file with the header of a WAVE of *)
(*                no frames.  Whether pygame.mixer.Sound decodes that file *)
(*                depends on the mixer library: it is rejected from then   *)
(*                on (store_partial) or decoded as a sound of no frames    *)
(*                (store_empty)                                            *)
(*   store_raise  the disk store raises any other exception before the     *)
(*                file is opened: no file written                          *)
(*   store_abort_partial, store_abort_empty  the disk store raises any     *)
(*                other exception after wave.open: leaving the with block  *)
(*                closes the file with the header of a WAVE of no frames,  *)
(*                rejected or decoded as above                             *)
(***************************************************************************)
Faults == {"mem", "load_error", "load_raise", "engine",
           "store_error", "store_partial", "store_empty", "store_raise",
           "store_abort_partial", "store_abort_empty"}

cache_key(sound_key, signature) == <<sound_key, signature>>

\* mutant: a disk cache that is never read back
_load_cached_sound_never(disk, file, fault) == [raised |-> FALSE, sound |-> NoSound]

\* _load_cached_sound_from_disk: [raised, sound], sound = NoSound for None
_load_cached_sound_from_disk(disk, file, fault) ==
    IF file \notin DiskFiles(disk) THEN [raised |-> FALSE, sound |-> NoSound]
    ELSE IF fault = "load_raise" THEN [raised |-> TRUE, sound |-> NoSound]
    ELSE IF fault = "load_error" \/ DiskEntry(disk, file).sound.kind = "corrupt"
         THEN [raised |-> FALSE, sound |-> NoSound]
    ELSE [raised |-> FALSE, sound |-> DiskEntry(disk, file).sound]

\* mutant: a disk store that lets its write errors out
_save_cached_sound_fatal(disk, file, sound, fault) ==
    IF fault \in {"store_raise", "store_error", "store_partial", "store_empty",
                 "store_abort_partial", "store_abort_empty"}
    THEN [raised |-> TRUE, disk |-> disk]
    ELSE [raised |-> FALSE, disk |-> DiskWrite(disk, file, sound)]

\* mutant: a disk store that silently writes nothing
_save_cached_sound_nowhere(disk, file, sound, fault) == [raised |-> FALSE, disk |-> disk]

\* _save_cached_sound_to_disk: [raised, disk]
_save_cached_sound_to_disk(disk, file, sound, fault) ==
    CASE fault = "store_raise" -> [raised |-> TRUE, disk |-> disk]
      [] fault = "store_error" -> [raised |-> FALSE, disk |-> disk]
      [] fault = "store_partial" ->
            [raised |-> FALSE, disk |-> DiskWrite(disk, file, Corrupt(sound.clip))]
      [] fault = "store_empty" ->
            [raised |-> FALSE, disk |-> DiskWrite(disk, file, Truncated(sound))]
      [] fault = "store_abort_partial" ->
            [raised |-> TRUE, disk |-> DiskWrite(disk, file, Corrupt(sound.clip))]
      [] fault = "store_abort_empty" ->
            [raised |-> TRUE, disk |-> DiskWrite(disk, file, Truncated(sound))]
      [] OTHER -> [raised |-> FALSE, disk |-> DiskWrite(disk, file, sound)]

\* The try block of play_sound, lines 1221-1229, step by step.  Its outcome is
\*   [raised, cache, disk, sound, trace, mem_hit, disk_hit, engine_done, io_failed]
\* trace lists the tiers in the order they were used; io_failed tells that a
\* disk cache read or write of this call did not succeed.
ChainBase(cache, disk, key) ==
    [raised |-> FALSE, cache |-> cache, disk |-> disk, sound |-> NoSound,
     trace |-> <<"mem_get">>, mem_hit |-> cache_hit(cache, key), disk_hit |-> FALSE,
     engine_done |-> FALSE, io_failed |-> FALSE]

\* lines 1226-1229: process, _save_cached_sound_to_disk, put
AfterEngine(base, cache, key, fault, on_disk, processed, saved) ==
    IF fault = "engine"
    THEN [base EXCEPT !.raised = TRUE, !.io_failed = on_disk,
                      !.trace = <<"mem_get", "disk_load", "engine">>]
    ELSE IF saved.raised
    THEN [base EXCEPT !.raised = TRUE, !.disk = saved.disk, !.engine_done = TRUE,
                      !.io_failed = TRUE,
                      !.trace = <<"mem_get", "disk_load", "engine", "disk_store">>]
    ELSE [base EXCEPT !.cache = cache_put(cache, key, processed),
                      !.disk = saved.disk, !.sound = processed, !.engine_done = TRUE,
                      !.io_failed = on_disk \/ fault \in {"store_error", "store_partial",
                                                          "store_empty"},
                      !.trace = <<"mem_get", "disk_load", "engine", "disk_store", "mem_put">>]

\* lines 1223-1228: the disk cache is probed, then the engine
AfterMiss(base, cache, disk, key, file, fault, loaded, processed) ==
    IF loaded.raised
    THEN [base EXCEPT !.raised = TRUE, !.io_failed = TRUE,
                      !.trace = <<"mem_get", "disk_load">>]
    ELSE IF loaded.sound # NoSound
    THEN [base EXCEPT !.cache = cache_put(cache, key, loaded.sound),
                      !.sound = loaded.sound, !.disk_hit = TRUE,
                      !.trace = <<"mem_get", "disk_load", "mem_put">>]
    ELSE AfterEngine(base, cache, key, fault, file \in DiskFiles(disk), processed,
                     _save_cached_sound_to_disk(disk, file, processed, fault))

\* lines 1221-1222: the memory cache is probed first
AfterProbe(base, cache, disk, sound_data, key, file, signature, fault) ==
    IF fault = "mem" THEN [base EXCEPT !.raised = TRUE]
    ELSE IF base.mem_hit
    THEN [base EXCEPT !.cache = cache_get(cache, key), !.sound = cache_item(cache, key)]
    ELSE AfterMiss(base, cache, disk, key, file, fault,
                   _load_cached_sound_from_disk(disk, file, fault),
                   process(sound_data, signature))

\* lines 1218-1219: signature and cache_key; the disk file name is computed
\* from the stat of the source file at the time of the call
ChainSigned(cache, disk, sound_data, stamp, signature, fault) ==
    AfterProbe(ChainBase(cache, disk, cache_key(sound_data.clip, signature)),
               cache, disk, sound_data, cache_key(sound_data.clip, signature),
               _disk_cache_filename(sound_data.clip, stamp, signature), signature, fault)

ProcessingChain(settings, cache, disk, sound_data, stamp, fault) ==
    ChainSigned(cache, disk, sound_data, stamp, _compressor_signature(settings), fault)

\* the step of the chain a fault strikes is reached by this call: the memory
\* probe always; pygame.mixer.Sound(cache_file) when the memory cache misses
\* and the file is there (os.path.isfile, lines 877-880), whatever it holds;
\* the engine and the store when the memory cache misses and the disk cache
\* gives nothing (no file, or a file the decoder rejects)
DiskUsable(disk, file) ==
    IF file \in DiskFiles(disk) THEN DiskEntry(disk, file).sound.kind # "corrupt" ELSE FALSE

FaultReached(cache, disk, key, file, fault) ==
    CASE fault = "mem" -> TRUE
      [] fault \in {"load_error", "load_raise"} ->
            ~cache_hit(cache, key) /\ file \in DiskFiles(disk)
      [] OTHER -> ~cache_hit(cache, key) /\ ~DiskUsable(disk, file)

FaultApplies(settings, cache, disk, sound_data, stamp, fault) ==
    /\ settings.enabled
    /\ FaultReached(cache, disk,
                    cache_key(sound_data.clip, _compressor_signature(settings)),
                    _disk_cache_filename(sound_data.clip, stamp,
                                         _compressor_signature(settings)),
                    fault)

\* mutant: no except clause, the exception leaves play_sound before play()
Played_uncaught(enabled, sound_data, chain) ==
    [cache |-> chain.cache, disk |-> chain.disk,
     played |-> IF ~enabled THEN <<sound_data>>
                ELSE IF chain.raised THEN <<>> ELSE <<chain.sound>>,
     escaped |-> enabled /\ chain.raised, enabled |-> enabled, chain |-> chain]

\* except Exception: sound_to_play = sound_data.sound; then sound_to_play.play()
\*   [cache, disk, played, escaped, enabled, chain]
Played(enabled, sound_data, chain) ==
    [cache |-> chain.cache, disk |-> chain.disk,
     played |-> IF enabled /\ ~chain.raised THEN <<chain.sound>> ELSE <<sound_data>>,
     escaped |-> FALSE, enabled |-> enabled, chain |-> chain]

\* mutant: the chain is entered whether or not the compressor is enabled
play_sound_unconditional(settings, cache, disk, sound_data, stamp, fault) ==
    Played(TRUE, sound_data,
           ProcessingChain(settings, cache, disk, sound_data, stamp, fault))

\* lines 1216-1234; with the compressor disabled the chain is not entered
play_sound(settings, cache, disk, sound_data, stamp, fault) ==
    IF settings.enabled
    THEN Played(TRUE, sound_data,
                ProcessingChain(settings, cache, disk, sound_data, stamp, fault))
    ELSE Played(FALSE, sound_data,
                [ChainBase(cache, disk, <<>>) EXCEPT !.trace = <<>>, !.mem_hit = FALSE])

(***************************************************************************)
(* soundboard.py: the window's handlers.                                   *)
(***************************************************************************)
NoPlay == [op |-> "none", clip |-> "", in_index |-> FALSE, enabled |-> FALSE,
           fault |-> "none", mem_hit |-> FALSE, disk_hit |-> FALSE,
           engine_done |-> FALSE, trace |-> <<>>, played |-> <<>>, escaped |-> FALSE,
           n |-> 0, stuck |-> {}, removed |-> {}, save_ok |-> TRUE, attr |-> "",
           busy |-> FALSE, unmuted |-> FALSE]

\* no step of the engine has run on its own
NoEngine == [op |-> "none"]

\* the options and smart remute, before anything ran: pycaw is not installed,
\* the system is not muted, the options are what __init__ assigns (lines
\* 458-461: overlap on, smart mute off), settings.json holds neither
\* smart_unmute_remute: true nor overlap_audio: false, nothing is pending and
\* remute_timer is not active
NoVolume == [pycaw |-> FALSE, muted |-> FALSE, opt_smart_mute |-> FALSE, saved |-> FALSE,
             opt_overlap |-> TRUE, saved_overlap |-> TRUE,
             remute_pending |-> FALSE, timer |-> FALSE]

\* the values the import of lines 39-46 can give PYCAW_AVAILABLE: True when
\* pycaw and comtypes are installed, False when the import raises ImportError
PYCAW_AVAILABLE == BOOLEAN

\* play_sound, lines 1205-1214, v.pycaw the value of PYCAW_AVAILABLE: a muted
\* system is unmuted, the remute is pending and remute_timer runs.  fails is
\* a get_system_volume_interface, GetMute or SetMute that raises
\* AttributeError or OSError: it is caught, logged, and leaves all of this as
\* it was.
smart_unmute(v, fails) ==
    IF v.opt_smart_mute /\ v.pycaw /\ ~fails /\ v.muted
    THEN [v EXCEPT !.muted = FALSE, !.remute_pending = TRUE, !.timer = TRUE]
    ELSE v

\* check_remute, the slot of remute_timer: busy is pygame.mixer.get_busy(),
\* fails a SetMute that raises OSError; without pycaw there is no volume
\* interface and SetMute is skipped
check_remute(v, busy, fails) ==
    IF ~v.remute_pending THEN [v EXCEPT !.timer = FALSE]
    ELSE IF busy THEN v
    ELSE IF ~v.pycaw THEN [v EXCEPT !.remute_pending = FALSE, !.timer = FALSE]
    ELSE IF fails THEN v
    ELSE [v EXCEPT !.muted = TRUE, !.remute_pending = FALSE, !.timer = FALSE]

\* stop_all_sounds, lines 1254-1256
stop_all_sounds(v) ==
    IF v.remute_pending /\ ~v.timer THEN [v EXCEPT !.timer = TRUE] ELSE v

\* save_settings writes smart_unmute_remute and overlap_audio; load_settings
\* reads each back when it is a boolean
save_options(v, wr) ==
    CASE wr = "ok" ->
            [v EXCEPT !.saved = v.opt_smart_mute, !.saved_overlap = v.opt_overlap]
      [] wr = "write_fails" -> [v EXCEPT !.saved = FALSE, !.saved_overlap = TRUE]
      [] OTHER -> v
load_options(v, loadable) ==
    [v EXCEPT !.opt_smart_mute = loadable /\ v.saved,
              !.opt_overlap = ~loadable \/ v.saved_overlap]

NoRuns == [c \in Clips |-> "no"]
NoTaint == [c \in Clips |-> FALSE]

\* load_sounds: every readable sound file is decoded into sound_index
load_sounds(disk_files) == [c \in Clips |-> disk_files[c]]

\* what a save of settings.json comes to: the file is written; open() raises
\* OSError and the file stays as it was; or open() has emptied the file and the
\* write raises OSError, which leaves a file that is not JSON
Writes == {"ok", "open_fails", "write_fails"}
Unparsable == [exists |-> TRUE, parses |-> FALSE, data |-> EmptyData]

\* load_settings reads the file when it is there and json.load accepts it
Loadable(file) == file.exists /\ file.parses

\* save_settings: json.dump of the record, the compressor keys of it; an
\* OSError is logged
save_settings(file, s, wr) ==
    CASE wr = "ok" ->
            [exists |-> TRUE, parses |-> TRUE, data |-> compressor_settings_to_dict(s)]
      [] wr = "write_fails" -> Unparsable
      [] OTHER -> file

\* mutant: the revision is bumped whatever the caller asks
_clear_processed_cache_bumping(s, cache, increment_revision) ==
    [settings |-> [s EXCEPT !.revision = @ + 1], cache |-> cache_clear(cache)]

\* mutant: nothing is bumped and nothing is cleared
_clear_processed_cache_kept(s, cache, increment_revision) ==
    [settings |-> s, cache |-> cache]

\* _clear_processed_cache: [settings, cache]
_clear_processed_cache(s, cache, increment_revision) ==
    [settings |-> IF increment_revision THEN [s EXCEPT !.revision = @ + 1] ELSE s,
     cache |-> cache_clear(cache)]

\* _sync_compressor_controls: set_value of every control under the guard
\* (signals blocked), the toggle set to settings.enabled
_sync_compressor_controls(s) ==
    [attr \in DialAttrs |-> set_value(attr, s[attr])]

\* _set_compressor_attr up to the two clears: [settings, cache]
_set_compressor_attr(s, cache, attr, value) ==
    LET s1 == [s EXCEPT ![attr] = value]
        c1 == IF attr = "cache_max_items"
              THEN cache_set_capacity(cache, IntOf(s1.cache_max_items)) ELSE cache
    IN  _clear_processed_cache(s1, c1, TRUE)

\* mutant: the defaults are installed over the entries already stored
reset_compressor_defaults_keeping(cache) ==
    [settings |-> [compressor_settings_from_dict(
                       compressor_settings_to_dict(DEFAULT_COMPRESSOR_SETTINGS))
                       EXCEPT !.revision = @ + 1],
     cache |-> cache]

\* reset_compressor_defaults up to the two clears: [settings, cache]
reset_compressor_defaults(cache) ==
    LET s1 == compressor_settings_from_dict(
                  compressor_settings_to_dict(DEFAULT_COMPRESSOR_SETTINGS))
    IN  _clear_processed_cache(s1, cache_set_capacity(cache, s1.cache_max_items), TRUE)

\* on_compressor_enabled_toggled: the settings after the slot ran
on_compressor_enabled_toggled(s, updating, checked) ==
    IF updating THEN s ELSE [s EXCEPT !.enabled = checked]

\* mutant: the values the dials were clamped to are written back
_sync_compressor_slots_writing(s) ==
    [k \in DOMAIN s |->
        IF k \in DialAttrs THEN DialValue(k, set_value(k, s[k]))
        ELSE IF k = "revision" THEN s[k] + 1 ELSE s[k]]

\* the slots of the controls while _sync_compressor_controls runs: the dials
\* emit nothing (set_value blocks their signals) and the toggled signal of
\* setChecked meets the _compressor_updating_ui guard: the settings after it
_sync_compressor_slots(s) ==
    on_compressor_enabled_toggled(s, TRUE, s.enabled)

(***************************************************************************)
(* State after the assignments of SoundboardWindow.__init__, lines         *)
(* 446-466 and _build_ui: before load_settings.                            *)
(***************************************************************************)
FreshSettings == compressor_settings_from_dict(EmptyData)
NoSettingsFile == [exists |-> FALSE, parses |-> FALSE, data |-> EmptyData]
FreshCache == ProcessedSoundCache(FreshSettings.cache_max_items)
EmptyIndex == [c \in Clips |-> 0]

\* The cache folder outlives the process: the application can start with a
\* cache file that a failed write of an earlier run left behind, here one
\* under the file name of clip A and the default settings, which the decoder
\* rejects.
LeftoverFile ==
    {[file |-> _disk_cache_filename("A", 1, _compressor_signature(FreshSettings)),
      sound |-> Corrupt("A")]}

Init ==
    /\ pc = "constructing"
    /\ compressor_settings = FreshSettings
    /\ processed_cache = FreshCache
    /\ sound_index = EmptyIndex
    /\ dials = InitialDials
    /\ toggle = FALSE
    /\ updating_ui = FALSE
    /\ settings_file = NoSettingsFile
    /\ disk_cache \in {{}, LeftoverFile}
    /\ files = [c \in Clips |-> 1]
    /\ last = NoPlay
    /\ engine_runs = NoRuns
    /\ tainted = NoTaint
    /\ touched = <<>>
    /\ engine = NoEngine
    /\ volume = NoVolume
    /\ lru_pure = TRUE
    /\ budget = [faults |-> 0, sessions |-> 1, hand_edits |-> 0, file_edits |-> 0]

\* __init__, lines 477-485: load_settings, _sync_compressor_controls, load_sounds.
\* A file that json.load rejects is logged and the defaults stay.  An exception
\* of compressor_settings_from_dict is not caught by load_settings and leaves
\* __init__.
Construct ==
    /\ pc = "constructing"
    /\ IF Loadable(settings_file) /\ compressor_settings_from_dict_raises(settings_file.data)
       THEN /\ pc' = "crashed"
            /\ UNCHANGED <<compressor_settings, processed_cache, sound_index, dials, toggle,
                           volume>>
       ELSE \E s \in {IF Loadable(settings_file)
                       THEN compressor_settings_from_dict(settings_file.data)
                       ELSE compressor_settings} :
                /\ pc' = "running"
                /\ compressor_settings' = _sync_compressor_slots(s)
                /\ processed_cache' =
                       IF Loadable(settings_file)
                       THEN cache_set_capacity(processed_cache, s.cache_max_items)
                       ELSE processed_cache
                /\ toggle' = s.enabled
                /\ dials' = _sync_compressor_controls(s)
                /\ sound_index' = load_sounds(files)
                /\ volume' = load_options(volume, Loadable(settings_file))
    /\ last' = [NoPlay EXCEPT !.op = "construct"]
    /\ UNCHANGED <<updating_ui, settings_file, disk_cache, files, engine_runs, tainted,
                   touched, lru_pure, budget, engine>>

\* the I/O failures a settings handler meets: one for the files it could not
\* remove, one for a settings.json it could not write
HandlerFaults(stuck, wr) ==
    (IF stuck = {} THEN 0 ELSE 1) + (IF wr = "ok" THEN 0 ELSE 1)

\* the user moves a dial (or types a value): QDial emits valueChanged only for
\* a new raw value of its range; on_compressor_dial_changed, _set_compressor_attr
DialChanged(attr, raw, stuck, wr) ==
    /\ pc = "running"
    /\ raw \in DialMinRaw(attr)..DialMaxRaw(attr)
    /\ raw # dials[attr]
    /\ compressor_settings.revision < MaxRevision
    /\ stuck \in StuckSets(disk_cache)
    /\ updating_ui => wr = "ok"
    /\ budget.faults + HandlerFaults(stuck, wr) <= MaxFaults
    /\ budget' = [budget EXCEPT !.faults = @ + HandlerFaults(stuck, wr)]
    /\ dials' = [dials EXCEPT ![attr] = raw]
    /\ IF updating_ui
       THEN UNCHANGED <<compressor_settings, processed_cache, disk_cache, settings_file,
                        engine_runs, tainted, volume>>
       ELSE \E r \in {_set_compressor_attr(compressor_settings, processed_cache, attr,
                                            DialValue(attr, raw))} :
                /\ compressor_settings' = r.settings
                /\ processed_cache' = r.cache
                /\ disk_cache' = _clear_disk_cache(disk_cache, stuck)
                /\ settings_file' = save_settings(settings_file, r.settings, wr)
                /\ volume' = save_options(volume, wr)
                /\ engine_runs' = NoRuns
                /\ tainted' = NoTaint
    /\ last' = [NoPlay EXCEPT !.op = "dial", !.attr = attr, !.stuck = stuck,
                              !.save_ok = (wr = "ok"),
                              !.removed = DiskFiles(disk_cache) \ DiskFiles(disk_cache')]
    /\ UNCHANGED <<pc, sound_index, toggle, updating_ui, files, touched, lru_pure, engine>>

\* the Reset button
ResetDefaults(stuck, wr) ==
    /\ pc = "running"
    /\ stuck \in StuckSets(disk_cache)
    /\ budget.faults + HandlerFaults(stuck, wr) <= MaxFaults
    /\ budget' = [budget EXCEPT !.faults = @ + HandlerFaults(stuck, wr)]
    /\ \E r \in {reset_compressor_defaults(processed_cache)} :
           /\ compressor_settings' = _sync_compressor_slots(r.settings)
           /\ processed_cache' = r.cache
           /\ disk_cache' = _clear_disk_cache(disk_cache, stuck)
           /\ dials' = _sync_compressor_controls(r.settings)
           /\ toggle' = r.settings.enabled
           /\ settings_file' = save_settings(settings_file, r.settings, wr)
           /\ volume' = save_options(volume, wr)
    /\ engine_runs' = NoRuns
    /\ tainted' = NoTaint
    /\ last' = [NoPlay EXCEPT !.op = "reset", !.stuck = stuck, !.save_ok = (wr = "ok"),
                              !.removed = DiskFiles(disk_cache) \ DiskFiles(disk_cache')]
    /\ UNCHANGED <<pc, sound_index, updating_ui, files, touched, lru_pure, engine>>

\* the user flips the enabled toggle: toggled(checked) with the new state
EnabledToggled(wr) ==
    /\ pc = "running"
    /\ updating_ui => wr = "ok"
    /\ budget.faults + HandlerFaults({}, wr) <= MaxFaults
    /\ budget' = [budget EXCEPT !.faults = @ + HandlerFaults({}, wr)]
    /\ toggle' = ~toggle
    /\ compressor_settings' =
           on_compressor_enabled_toggled(compressor_settings, updating_ui, ~toggle)
    /\ settings_file' = IF updating_ui THEN settings_file
                        ELSE save_settings(settings_file, compressor_settings', wr)
    /\ volume' = IF updating_ui THEN volume ELSE save_options(volume, wr)
    /\ last' = [NoPlay EXCEPT !.op = "toggle", !.save_ok = (wr = "ok")]
    /\ UNCHANGED <<pc, processed_cache, sound_index, dials, updating_ui, disk_cache, files,
                   engine_runs, tainted, touched, lru_pure, engine>>

\* reload_sounds: stop_all_sounds, _clear_processed_cache(False), load_sounds
ReloadSounds ==
    /\ pc = "running"
    /\ \E r \in {_clear_processed_cache(compressor_settings, processed_cache, FALSE)} :
           /\ compressor_settings' = r.settings
           /\ processed_cache' = r.cache
    /\ sound_index' = load_sounds(files)
    /\ volume' = stop_all_sounds(volume)
    /\ last' = [NoPlay EXCEPT !.op = "reload"]
    /\ UNCHANGED <<pc, dials, toggle, updating_ui, settings_file, disk_cache, files,
                   engine_runs, tainted, touched, lru_pure, budget, engine>>

Bump(runs) == IF runs = "no" THEN "once" ELSE "again"

\* a sound button is clicked: play_sound(sound_key), one step of it failing
\* when fault is not "none", the volume control failing when vfail
PlaySound(sound_key, fault, vfail) ==
    /\ pc = "running"
    /\ vfail => /\ sound_index[sound_key] # 0
                /\ volume.opt_smart_mute /\ volume.pycaw
                /\ fault = "none"
                /\ budget.faults < MaxFaults
    /\ IF sound_index[sound_key] = 0
       THEN /\ fault = "none"
            /\ last' = [NoPlay EXCEPT !.op = "play", !.clip = sound_key]
            /\ UNCHANGED <<processed_cache, disk_cache, engine_runs, tainted, budget,
                           volume>>
       ELSE /\ \/ fault = "none"
               \/ /\ fault \in Faults
                  /\ budget.faults < MaxFaults
                  /\ FaultApplies(compressor_settings, processed_cache, disk_cache,
                                  RawSound(sound_key, sound_index[sound_key]),
                                  files[sound_key], fault)
            /\ budget' = IF fault = "none" /\ ~vfail THEN budget
                         ELSE [budget EXCEPT !.faults = @ + 1]
            /\ volume' = smart_unmute(volume, vfail)
            /\ \E r \in {play_sound(compressor_settings, processed_cache, disk_cache,
                                    RawSound(sound_key, sound_index[sound_key]),
                                    files[sound_key], fault)} :
                /\ processed_cache' = r.cache
                /\ disk_cache' = r.disk
                /\ engine_runs' =
                       IF r.chain.engine_done
                       THEN [engine_runs EXCEPT ![sound_key] = Bump(@)] ELSE engine_runs
                /\ tainted' =
                       IF r.chain.io_failed
                       THEN [tainted EXCEPT ![sound_key] = TRUE] ELSE tainted
                /\ last' = [op |-> "play", clip |-> sound_key, in_index |-> TRUE,
                            enabled |-> r.enabled, fault |-> fault,
                            mem_hit |-> r.chain.mem_hit,
                            disk_hit |-> r.chain.disk_hit,
                            engine_done |-> r.chain.engine_done,
                            trace |-> r.chain.trace,
                            played |-> r.played, escaped |-> r.escaped, n |-> 0,
                            stuck |-> {}, removed |-> {}, save_ok |-> TRUE,
                            attr |-> "", busy |-> FALSE,
                            unmuted |-> volume.muted /\ ~smart_unmute(volume, vfail).muted]
    /\ UNCHANGED <<pc, compressor_settings, sound_index, dials, toggle, updating_ui,
                   settings_file, files, touched, lru_pure, engine>>

\* closeEvent saves the settings (a failing write is logged) and the process
\* ends; the next start of the application runs __init__ again
closeEvent(wr) ==
    /\ pc = "running"
    /\ budget.sessions < MaxSessions
    /\ budget.faults + HandlerFaults({}, wr) <= MaxFaults
    /\ settings_file' = save_settings(settings_file, compressor_settings, wr)
    /\ pc' = "constructing"
    /\ compressor_settings' = FreshSettings
    /\ processed_cache' = FreshCache
    /\ sound_index' = EmptyIndex
    /\ dials' = InitialDials
    /\ toggle' = FALSE
    /\ updating_ui' = FALSE
    /\ volume' = [save_options(volume, wr) EXCEPT !.opt_smart_mute = FALSE,
                      !.opt_overlap = TRUE, !.remute_pending = FALSE, !.timer = FALSE]
    /\ last' = [NoPlay EXCEPT !.op = "close", !.save_ok = (wr = "ok")]
    /\ budget' = [budget EXCEPT !.sessions = @ + 1,
                                !.faults = @ + HandlerFaults({}, wr)]
    /\ UNCHANGED <<disk_cache, files, engine_runs, tainted, touched, lru_pure, engine>>

RemuteFrame == UNCHANGED <<pc, compressor_settings, processed_cache, sound_index, dials,
                           toggle, updating_ui, disk_cache, files, engine_runs, tainted,
                           touched, lru_pure, engine>>

\* the Overlap / Interrupt menu actions: on_playback_mode_selected(overlap)
PlaybackModeSelected(overlap, wr) ==
    /\ pc = "running"
    /\ budget.faults + HandlerFaults({}, wr) <= MaxFaults
    /\ budget' = [budget EXCEPT !.faults = @ + HandlerFaults({}, wr)]
    /\ volume' = save_options([volume EXCEPT !.opt_overlap = overlap], wr)
    /\ settings_file' = save_settings(settings_file, compressor_settings, wr)
    /\ last' = [NoPlay EXCEPT !.op = "mode", !.save_ok = (wr = "ok")]
    /\ RemuteFrame

(***************************************************************************)
(* The environment: the sound files and settings.json are edited from      *)
(* outside.                                                                *)
(***************************************************************************)
\* a sound file is rewritten: new content, new modification stamp
EditFile(clip) ==
    /\ files[clip] > 0
    /\ budget.file_edits < MaxFileEdits
    /\ files' = [files EXCEPT ![clip] = @ + 1]
    /\ budget' = [budget EXCEPT !.file_edits = @ + 1]
    /\ tainted' = [tainted EXCEPT ![clip] = TRUE]
    /\ last' = NoPlay
    /\ UNCHANGED <<pc, compressor_settings, processed_cache, sound_index, dials, toggle,
                   updating_ui, settings_file, disk_cache, engine_runs, touched, lru_pure, engine,
                   volume>>

\* a sound file is removed: os.stat and the decoder fail on it from now on
DeleteFile(clip) ==
    /\ files[clip] > 0
    /\ budget.file_edits < MaxFileEdits
    /\ files' = [files EXCEPT ![clip] = 0]
    /\ budget' = [budget EXCEPT !.file_edits = @ + 1]
    /\ tainted' = [tainted EXCEPT ![clip] = TRUE]
    /\ last' = NoPlay
    /\ UNCHANGED <<pc, compressor_settings, processed_cache, sound_index, dials, toggle,
                   updating_ui, settings_file, disk_cache, engine_runs, touched, lru_pure, engine,
                   volume>>

\* one key of settings.json is edited by hand while the application is closed
HandEdit(key, j) ==
    /\ pc = "constructing"
    /\ budget.hand_edits < MaxHandEdits
    /\ settings_file.data[key] # j
    /\ settings_file' = [exists |-> TRUE, parses |-> TRUE,
                         data |-> [settings_file.data EXCEPT ![key] = j]]
    /\ budget' = [budget EXCEPT !.hand_edits = @ + 1]
    /\ engine_runs' = IF key \in FloatKeys THEN NoRuns ELSE engine_runs
    /\ tainted' = IF key \in FloatKeys THEN NoTaint ELSE tainted
    /\ last' = NoPlay
    /\ UNCHANGED <<pc, compressor_settings, processed_cache, sound_index, dials, toggle,
                   updating_ui, disk_cache, files, touched, lru_pure, engine,
                   volume>>

(***************************************************************************)
(* The application with its caches and files: playback under dial changes, *)
(* failures and edited sound files.  The inputs explored: the ratio dial   *)
(* at its maximum, and settings.json edited to a capacity of one.          *)
(***************************************************************************)
PlayDialInputs == {<<"ratio", DialMaxRaw("ratio")>>}

PlayFileEdits == {<<"cache_max_items", J("int", 1)>>}

Next ==
    \/ Construct
    \/ \E d \in PlayDialInputs : \E stuck \in StuckSets(disk_cache) : \E wr \in Writes :
           DialChanged(d[1], d[2], stuck, wr)
    \/ \E stuck \in StuckSets(disk_cache) : \E wr \in Writes : ResetDefaults(stuck, wr)
    \/ \E wr \in Writes : EnabledToggled(wr)
    \/ ReloadSounds
    \/ \E c \in Clips : \E fault \in Faults \cup {"none"} : PlaySound(c, fault, FALSE)
    \/ \E c \in Clips : EditFile(c)
    \/ \E c \in Clips : DeleteFile(c)
    \/ \E e \in PlayFileEdits : HandEdit(e[1], e[2])

Spec == Init /\ [][Next]_vars

(***************************************************************************)
(* The settings across sessions: the application is closed (its last save  *)
(* may fail) and started again, settings.json edited by hand in between.   *)
(***************************************************************************)
SessionFileEdits ==
    {<<"ratio", J("float", 4 * Unit + 4)>>,
     <<"ratio", J("int", 8)>>,
     <<"cache_max_items", J("int", 1)>>,
     <<"threshold_db", J("int", 5)>>}

NextSession ==
    \/ Construct
    \/ \E d \in PlayDialInputs : DialChanged(d[1], d[2], {}, "ok")
    \/ ResetDefaults({}, "ok")
    \/ EnabledToggled("ok")
    \/ ReloadSounds
    \/ \E c \in Clips : PlaySound(c, "none", FALSE)
    \/ \E wr \in Writes : closeEvent(wr)
    \/ \E overlap \in BOOLEAN : PlaybackModeSelected(overlap, "ok")
    \/ \E e \in SessionFileEdits : HandEdit(e[1], e[2])

SpecSession == Init /\ [][NextSession]_vars

(***************************************************************************)
(* The settings on their own: any persisted record, every dial.            *)
(***************************************************************************)
JsonValues ==
    {J("null", 0), J("str", 0), J("str", 1), J("list", 0), J("list", 1),
     J("bool", 0), J("bool", 1), J("int", -1), J("int", 0), J("int", 5),
     J("float", 5000), J("float", 2 * Unit + 7000), J("float", -(3 * Unit + 2000)),
     J("float", 25 * Unit + 4), J("float", 2 * Unit + 5), J("nzero", 0),
     J("big", 1), J("big", -1), J("nan", 0), J("inf", 0), J("ninf", 0)}

DialInputs(attr) == {DialMinRaw(attr), DialMaxRaw(attr)}

NextSettings ==
    \/ Construct
    \/ \E attr \in DialAttrs : \E raw \in DialInputs(attr) :
           DialChanged(attr, raw, {}, "ok")
    \/ ResetDefaults({}, "ok")
    \/ EnabledToggled("ok")
    \/ \E wr \in Writes : closeEvent(wr)
    \/ \E key \in Keys : \E j \in JsonValues : HandEdit(key, j)

SpecSettings == Init /\ [][NextSettings]_vars

(***************************************************************************)
(* Smart unmute / remute: the system starts muted, the user switches the   *)
(* option on, plays, stops and closes the window; remute_timer fires       *)
(* check_remute while it is active.  What pygame.mixer.get_busy() answers  *)
(* at a tick is an input of the tick: sounds end on their own, so a tick   *)
(* that finds the mixer idle keeps coming while the timer runs.            *)
(***************************************************************************)
InitRemute ==
    /\ pc = "constructing"
    /\ compressor_settings = FreshSettings
    /\ processed_cache = FreshCache
    /\ sound_index = EmptyIndex
    /\ dials = InitialDials
    /\ toggle = FALSE
    /\ updating_ui = FALSE
    /\ settings_file = NoSettingsFile
    /\ disk_cache = {}
    /\ files = [c \in Clips |-> 1]
    /\ last = NoPlay
    /\ engine_runs = NoRuns
    /\ tainted = NoTaint
    /\ touched = <<>>
    /\ engine = NoEngine
    /\ lru_pure = TRUE
    /\ budget = [faults |-> 0, sessions |-> 1, hand_edits |-> 0, file_edits |-> 0]
    /\ \E p \in PYCAW_AVAILABLE : volume = [NoVolume EXCEPT !.muted = TRUE, !.pycaw = p]

\* the Smart Unmute/Remute menu action: on_smart_mute_toggled(checked).  The
\* action is enabled only when pycaw was imported (setEnabled, line 693), so
\* without it the user cannot toggle it
SmartMuteToggled(wr) ==
    /\ pc = "running"
    /\ volume.pycaw
    /\ budget.faults + HandlerFaults({}, wr) <= MaxFaults
    /\ budget' = [budget EXCEPT !.faults = @ + HandlerFaults({}, wr)]
    /\ volume' = save_options([volume EXCEPT !.opt_smart_mute = ~@], wr)
    /\ settings_file' = save_settings(settings_file, compressor_settings, wr)
    /\ last' = [NoPlay EXCEPT !.op = "smart", !.save_ok = (wr = "ok")]
    /\ RemuteFrame

\* a tick of remute_timer: check_remute
CheckRemute(busy, fails) ==
    /\ pc = "running"
    /\ volume.timer
    /\ fails => /\ volume.remute_pending /\ ~busy
                /\ budget.faults < MaxFaults
    /\ budget' = IF fails THEN [budget EXCEPT !.faults = @ + 1] ELSE budget
    /\ volume' = check_remute(volume, busy, fails)
    /\ last' = [NoPlay EXCEPT !.op = "check_remute", !.busy = busy]
    /\ UNCHANGED settings_file
    /\ RemuteFrame

\* the Stop button: stop_all_sounds
StopAllSounds ==
    /\ pc = "running"
    /\ volume' = stop_all_sounds(volume)
    /\ last' = [NoPlay EXCEPT !.op = "stop"]
    /\ UNCHANGED <<settings_file, budget>>
    /\ RemuteFrame

NextRemute ==
    \/ Construct
    \/ \E wr \in Writes : SmartMuteToggled(wr)
    \/ \E overlap \in BOOLEAN : \E wr \in Writes : PlaybackModeSelected(overlap, wr)
    \/ \E c \in Clips : \E vfail \in BOOLEAN : PlaySound(c, "none", vfail)
    \/ \E busy \in BOOLEAN : \E fails \in BOOLEAN : CheckRemute(busy, fails)
    \/ StopAllSounds
    \/ \E wr \in Writes : closeEvent(wr)

\* the timer keeps firing, and the mixer is idle at some of its ticks
SpecRemute ==
    InitRemute /\ [][NextRemute]_vars /\ WF_vars(CheckRemute(FALSE, FALSE))

(***************************************************************************)
(* ProcessedSoundCache on its own: any sequence of get, put, clear and     *)
(* set_capacity on a cache constructed with any capacity argument.         *)
(***************************************************************************)
ClipNames == <<"A", "B", "C", "D", "E", "F">>
CacheClips == {ClipNames[i] : i \in 1..(MaxCap + 1)}
CacheKeys == {cache_key(c, _compressor_signature(FreshSettings)) : c \in CacheClips}
CacheSounds(key) ==
    {process(RawSound(key[1], src), key[2]) : src \in 1..2}

\* the ghost order of touches: key becomes the most recently touched
Touch(order, key) == Append(SelectSeq(order, LAMBDA k : k # key), key)

InitCache ==
    /\ pc = "cache"
    /\ \E n \in -1..MaxCap : processed_cache = ProcessedSoundCache(n)
    /\ compressor_settings = FreshSettings
    /\ sound_index = EmptyIndex
    /\ dials = InitialDials
    /\ toggle = FALSE
    /\ updating_ui = FALSE
    /\ settings_file = NoSettingsFile
    /\ disk_cache = {}
    /\ files = [c \in Clips |-> 1]
    /\ last = NoPlay
    /\ engine_runs = NoRuns
    /\ tainted = NoTaint
    /\ touched = <<>>
    /\ engine = NoEngine
    /\ volume = NoVolume
    /\ lru_pure = TRUE
    /\ budget = [faults |-> 0, sessions |-> 1, hand_edits |-> 0, file_edits |-> 0]

CacheFrame == UNCHANGED <<pc, compressor_settings, sound_index, dials, toggle, updating_ui,
                          settings_file, disk_cache, files, engine_runs, tainted, budget,
                          engine, volume>>

CacheGet(key) ==
    /\ pc = "cache"
    /\ processed_cache' = cache_get(processed_cache, key)
    /\ touched' = IF cache_hit(processed_cache, key) THEN Touch(touched, key) ELSE touched
    /\ last' = [NoPlay EXCEPT !.op = "get", !.clip = key[1],
                              !.mem_hit = cache_hit(processed_cache, key)]
    /\ UNCHANGED lru_pure
    /\ CacheFrame

CachePut(key, sound) ==
    /\ pc = "cache"
    /\ processed_cache' = cache_put(processed_cache, key, sound)
    /\ touched' = Touch(touched, key)
    /\ last' = [NoPlay EXCEPT !.op = "put", !.clip = key[1]]
    /\ UNCHANGED lru_pure
    /\ CacheFrame

CacheClear ==
    /\ pc = "cache"
    /\ processed_cache' = cache_clear(processed_cache)
    /\ lru_pure' = FALSE
    /\ last' = [NoPlay EXCEPT !.op = "clear"]
    /\ UNCHANGED touched
    /\ CacheFrame

CacheSetCapacity(n) ==
    /\ pc = "cache"
    /\ processed_cache' = cache_set_capacity(processed_cache, n)
    /\ lru_pure' = FALSE
    /\ last' = [NoPlay EXCEPT !.op = "set_capacity", !.n = n,
                              !.removed = StoreKeys(processed_cache.store)
                                              \ StoreKeys(processed_cache'.store)]
    /\ UNCHANGED touched
    /\ CacheFrame

NextCache ==
    \/ \E key \in CacheKeys : CacheGet(key)
    \/ \E key \in CacheKeys : \E sound \in CacheSounds(key) : CachePut(key, sound)
    \/ CacheClear
    \/ \E n \in -1..MaxCap : CacheSetCapacity(n)

SpecCache == InitCache /\ [][NextCache]_vars

(***************************************************************************)
(* The engine on its own: the two format conversions on the buffers that   *)
(* are all zero or all at an end of the sample range, and the shape of     *)
(* what process returns, under settings as settings.json can hold them.    *)
(***************************************************************************)
ThresholdInputs == {Missing, J("int", -48), J("int", 0), J("float", -(6 * Unit)),
                    J("nan", 0), J("inf", 0), J("ninf", 0)}
RatioInputs == {Missing, J("int", 1), J("float", Unit + 5000), J("int", 20), J("inf", 0)}
\* an input gain of 7000 dB is beyond what 10 ** (db / 20) can hold
InputGainInputs == {Missing, J("int", 7000)}
EngineSettings ==
    {compressor_settings_from_dict(
         [EmptyData EXCEPT !["threshold_db"] = t, !["ratio"] = r,
                           !["input_gain_db"] = g]) :
         t \in ThresholdInputs, r \in RatioInputs, g \in InputGainInputs}

\* the sounds the mixer can hold: every sample type, mono or two channels,
\* no frame up to MaxFrames frames
SoundShapes ==
    {<<n>> : n \in 0..MaxFrames} \cup {<<n, 2>> : n \in 0..MaxFrames}
InputSounds ==
    {[id |-> "in", dtype |-> d, shape |-> sh] : d \in SoundDTypes, sh \in SoundShapes}

ExtremeBuffers(dtype) ==
    {[i \in 1..n |-> v] : n \in 1..MaxFrames, v \in {0, iinfo_max(dtype)}}

\* the buffers converted: the extreme ones, and one frame of the smallest
\* sample, of one step above zero and of the middle of the range
EngineBuffers(dtype) ==
    ExtremeBuffers(dtype) \cup
    {<<v>> : v \in {iinfo_min(dtype), 1, (iinfo_max(dtype) + 1) \div 2}}

InitEngine ==
    /\ pc = "engine"
    /\ compressor_settings \in EngineSettings
    /\ processed_cache = FreshCache
    /\ sound_index = EmptyIndex
    /\ dials = InitialDials
    /\ toggle = FALSE
    /\ updating_ui = FALSE
    /\ settings_file = NoSettingsFile
    /\ disk_cache = {}
    /\ files = [c \in Clips |-> 1]
    /\ last = NoPlay
    /\ engine_runs = NoRuns
    /\ tainted = NoTaint
    /\ touched = <<>>
    /\ lru_pure = TRUE
    /\ budget = [faults |-> 0, sessions |-> 1, hand_edits |-> 0, file_edits |-> 0]
    /\ engine = NoEngine
    /\ volume = NoVolume

EngineFrame == UNCHANGED <<pc, compressor_settings, processed_cache, sound_index, dials,
                           toggle, updating_ui, settings_file, disk_cache, files, last,
                           engine_runs, tainted, touched, lru_pure, budget, volume>>

SoundToFloat(dtype, arr) ==
    /\ pc = "engine"
    /\ engine' = [op |-> "to_float", dtype |-> dtype, arr |-> arr,
                  data |-> _sound_to_float(arr, dtype)]
    /\ EngineFrame

FloatToSound ==
    /\ pc = "engine"
    /\ engine.op = "to_float"
    /\ engine' = [op |-> "to_sound", dtype |-> engine.dtype, arr |-> engine.arr,
                  data |-> engine.data,
                  out |-> _float_to_sound(engine.data, engine.dtype)]
    /\ EngineFrame

Process(sound) ==
    /\ pc = "engine"
    /\ engine' = [op |-> "process", input |-> sound,
                  result |-> engine_process(sound, compressor_settings)]
    /\ EngineFrame

NextEngine ==
    \/ \E sound \in InputSounds : Process(sound)
    \/ \E dtype \in DTypes : \E arr \in EngineBuffers(dtype) : SoundToFloat(dtype, arr)
    \/ FloatToSound

SpecEngine == InitEngine /\ [][NextEngine]_vars

(***************************************************************************)
(* The gain computer on one frame, under thresholds and ratios as          *)
(* settings.json can hold them.                                            *)
(***************************************************************************)
GainThresholds == {Missing, J("int", -48), J("int", 0), J("float", -(6 * Unit)),
                   J("float", -317000), J("int", -117),
                   J("nan", 0), J("inf", 0), J("ninf", 0)}
GainRatios == {Missing, J("int", 1), J("float", Unit + 5000), J("int", 20), J("inf", 0)}
GainSettings ==
    {compressor_settings_from_dict(
         [EmptyData EXCEPT !["threshold_db"] = t, !["ratio"] = r]) :
         t \in GainThresholds, r \in GainRatios}

\* env_db of the first frame of a clip that starts at full scale (peak 1.0)
\* on a mixer at 44100 Hz under the default attack of 10 ms:
\* 20.0 * math.log10(1.0 - math.exp(-1.0 / (0.01 * 44100))), which is
\* -52.898617875880014
FirstFrameEnvelope ==
    [k |-> "num", neg |-> TRUE, m |-> <<1720505, 7538153, 26>>, e |-> -47]
\* the envelope of a frame in dB: 20 * log10(max(env, 1e-9)) is -180.0 for a
\* silent frame and more for any other
WholeEnvelopes == {-180, -48, -18, -6, 0, 6}
EnvelopeInputs ==
    {DoubleOf(Fin(d * Unit)) : d \in WholeEnvelopes} \cup {FirstFrameEnvelope}

InitGain ==
    /\ pc = "gain"
    /\ compressor_settings \in GainSettings
    /\ processed_cache = FreshCache
    /\ sound_index = EmptyIndex
    /\ dials = InitialDials
    /\ toggle = FALSE
    /\ updating_ui = FALSE
    /\ settings_file = NoSettingsFile
    /\ disk_cache = {}
    /\ files = [c \in Clips |-> 1]
    /\ last = NoPlay
    /\ engine_runs = NoRuns
    /\ tainted = NoTaint
    /\ touched = <<>>
    /\ lru_pure = TRUE
    /\ budget = [faults |-> 0, sessions |-> 1, hand_edits |-> 0, file_edits |-> 0]
    /\ engine = NoEngine
    /\ volume = NoVolume

CompressorGain(env_db) ==
    /\ pc = "gain"
    /\ engine' = [op |-> "gain", env_db |-> env_db,
                  frame |-> _compressor_gain(env_db, compressor_settings)]
    /\ EngineFrame

NextGain == \E env_db \in EnvelopeInputs : CompressorGain(env_db)

SpecGain == InitGain /\ [][NextGain]_vars

(***************************************************************************)
(* Claims.                                                                 *)
(***************************************************************************)
StoreOrder(cache) == [i \in 1..Len(cache.store) |-> cache.store[i].key]
Min(a, b) == IF a < b THEN a ELSE b
LastN(seq, n) == SubSeq(seq, Len(seq) - n + 1, Len(seq))

\* C1: after any sequence of put and get on a cache of capacity c, the keys
\* present are the min(c, number of distinct keys put) most recently touched
\* keys, in the order of their last touch (a put or a hitting get touches),
\* so that the least recently touched key is the next one evicted.
C1_LRURetention ==
    (pc = "cache" /\ lru_pure) =>
        StoreOrder(processed_cache) =
            LastN(touched, Min(processed_cache.max_items, Len(touched)))

\* C1 witness: capacity 2, a third key was put after a hitting get: the key
\* left out is the one neither put nor read last.
C1_Witness ==
    /\ pc = "cache" /\ lru_pure
    /\ processed_cache.max_items = 2
    /\ Len(touched) = 3
    /\ Len(processed_cache.store) = 2
    /\ touched[1] \notin StoreKeys(processed_cache.store)
    /\ last.op = "get" /\ last.mem_hit

\* what the claims about play_sound read of a step: the play that just ran
PlayedEnabled(l) == l.op = "play" /\ l.in_index /\ l.enabled
CurrentSignature == _compressor_signature(compressor_settings)
InStore(cache, key, sound) ==
    \E i \in 1..Len(cache.store) : cache.store[i] = [key |-> key, sound |-> sound]
UsableOnDisk(file) ==
    {e \in disk_cache : e.file = file /\ e.sound.kind # "corrupt"}

\* C2: a play with the compressor enabled and no failure probes the memory
\* cache, then the disk cache, then the engine: (a) a memory hit uses neither
\* the disk cache nor the engine, (b) a memory miss with a disk hit does not run
\* the engine and puts the disk result in the memory cache under (clip key,
\* signature), (c) a miss in both runs the engine on the raw clip, writes the
\* result to the disk cache, then puts it in the memory cache; the sound
\* obtained is the one played.
C2_ProbeOrder ==
    [][(PlayedEnabled(last') /\ last'.fault = "none") =>
         LET clip == last'.clip
             key == <<clip, CurrentSignature>>
             file == <<clip, files[clip], CurrentSignature>>
             memHit == key \in StoreKeys(processed_cache.store)
             fresh == process(RawSound(clip, sound_index[clip]), CurrentSignature)
         IN  /\ Len(last'.played) = 1
             /\ InStore(processed_cache', key, last'.played[1])
             /\ memHit =>
                   /\ last'.trace = <<"mem_get">>
                   /\ InStore(processed_cache, key, last'.played[1])
                   /\ disk_cache' = disk_cache
             /\ (~memHit /\ UsableOnDisk(file) # {}) =>
                   /\ last'.trace = <<"mem_get", "disk_load", "mem_put">>
                   /\ last'.played[1] \in {e.sound : e \in UsableOnDisk(file)}
                   /\ disk_cache' = disk_cache
             /\ (~memHit /\ UsableOnDisk(file) = {}) =>
                   /\ last'.trace =
                          <<"mem_get", "disk_load", "engine", "disk_store", "mem_put">>
                   /\ last'.played[1] = fresh
                   /\ [file |-> file, sound |-> fresh] \in disk_cache'
       ]_vars

\* C2 witness: a play that missed the memory cache and was served by the disk
\* cache, the engine left alone.
C2_Witness ==
    /\ PlayedEnabled(last) /\ last.fault = "none"
    /\ last.disk_hit /\ ~last.engine_done
    /\ InStore(processed_cache, <<last.clip, CurrentSignature>>, last.played[1])

\* the faults that raise into the except clause of play_sound; the others are
\* caught inside the helper they strike
RaisingFaults == {"mem", "load_raise", "engine", "store_raise",
                  "store_abort_partial", "store_abort_empty"}

\* the buffers the chain can deliver for a clip as its processed clip: the
\* memory cache entry under the key of the current signature, what the cache
\* file under the current file name decodes to, or the engine's output for the
\* raw clip
ProcessedClips(clip) ==
    {process(RawSound(clip, sound_index[clip]), CurrentSignature)}
        \cup {processed_cache.store[i].sound :
                  i \in {j \in 1..Len(processed_cache.store) :
                             processed_cache.store[j].key =
                                 cache_key(clip, CurrentSignature)}}
        \cup {e.sound : e \in UsableOnDisk(
                  _disk_cache_filename(clip, files[clip], CurrentSignature))}

C4_DiskBoundToContent ==
    /\ \A e \in disk_cache :
          (e.sound.kind = "proc" /\ e.file[2] # 0) =>
              /\ e.sound.clip = e.file[1]
              /\ e.sound.src = e.file[2]
              /\ e.sound.sig = e.file[3]
    /\ (PlayedEnabled(last) /\ last.disk_hit /\ files[last.clip] # 0) =>
          last.played[1].src = files[last.clip]

\* C5: the processed buffer a play plays was computed and cached under the
\* signature of the settings current at the time of the play.
C5_PlaysCurrentSignature ==
    (PlayedEnabled(last) /\ last.played[1].kind = "proc") =>
        last.played[1].sig = CurrentSignature

\* C5 witness: after the ratio dial was moved, a clip is played from a disk
\* cache file written under the new signature.
C5_Witness ==
    /\ PlayedEnabled(last) /\ last.disk_hit
    /\ compressor_settings.revision >= 1
    /\ compressor_settings.ratio = DialValue("ratio", DialMaxRaw("ratio"))
    /\ last.played[1].kind = "proc"

\* C6 (as claimed): every handler that changes the settings, a dial change, a
\* reset, a toggle of enabled, increments revision and empties both caches.
C6_EveryMutationInvalidates ==
    [][last'.op \in {"dial", "reset", "toggle"} =>
         /\ compressor_settings'.revision = compressor_settings.revision + 1
         /\ processed_cache'.store = <<>>
         /\ last'.stuck = {} => disk_cache' = {}
       ]_vars

\* C6 (amended): a dial change increments revision by one and empties the
\* memory and the disk cache; a reset empties both caches; a toggle of enabled
\* changes enabled alone and leaves revision and both caches as they were.
\* (Emptying the disk cache leaves the files whose removal fails.)
C6_NumericChangesInvalidate ==
    [][/\ last'.op = "dial" =>
             /\ compressor_settings'.revision = compressor_settings.revision + 1
             /\ processed_cache'.store = <<>>
             /\ disk_cache' = {e \in disk_cache : e.file \in last'.stuck}
       /\ last'.op = "reset" =>
             /\ processed_cache'.store = <<>>
             /\ disk_cache' = {e \in disk_cache : e.file \in last'.stuck}
       /\ last'.op = "toggle" =>
             /\ compressor_settings' =
                    [compressor_settings EXCEPT !.enabled = ~compressor_settings.enabled]
             /\ processed_cache' = processed_cache
             /\ disk_cache' = disk_cache
       ]_vars

\* C6 witness: enabled was toggled and both caches still hold their entries.
C6_Witness ==
    /\ last.op = "toggle"
    /\ processed_cache.store # <<>>
    /\ disk_cache # {}

\* C7 (as claimed): within a session revision never decreases.
C7_RevisionMonotonic ==
    [][(pc = "running" /\ pc' = "running") =>
          compressor_settings'.revision >= compressor_settings.revision]_vars

\* C8: between two invalidating events, with the source file unchanged and
\* the disk cache reads and writes succeeding, the engine produces a result for
\* a clip at most once, whatever plays, evictions, reloads and toggles happen.
C8_NoRecomputation ==
    \A c \in Clips : ~tainted[c] => engine_runs[c] # "again"

\* C8 witness: a clip processed once is played again after it left the memory
\* cache and is served by the disk cache.
C8_Witness ==
    /\ PlayedEnabled(last) /\ last.disk_hit
    /\ ~tainted[last.clip]
    /\ engine_runs[last.clip] = "once"

\* x >= 1.0 on Python floats
AtLeastOne(x) == x.k # "nan" /\ ~Gt(Fin(Unit), x)

\* C9: in every reachable state ratio >= 1.0, attack_ms >= 1.0,
\* release_ms >= 1.0 and cache_max_items >= 1.
C9_SettingsInvariants ==
    /\ AtLeastOne(compressor_settings.ratio)
    /\ AtLeastOne(compressor_settings.attack_ms)
    /\ AtLeastOne(compressor_settings.release_ms)
    /\ compressor_settings.cache_max_items >= 1

\* C9 witness: a record with an out-of-domain value was loaded and clamped.
C9_Witness ==
    /\ pc = "running"
    /\ last.op = "construct"
    /\ settings_file.data["ratio"] = J("int", -1)
    /\ compressor_settings.ratio = Fin(Unit)

\* C10 (as claimed): compressor_settings_from_dict raises on no record, so no
\* record of settings.json makes the construction of the window fail.
C10_LoadNeverRaises ==
    /\ pc # "crashed"
    /\ Loadable(settings_file) => ~compressor_settings_from_dict_raises(settings_file.data)

\* a value that is not of the field's type: anything but a JSON boolean for
\* enabled, anything but a JSON number for the numeric fields
Malformed(key, j) ==
    IF key = "enabled" THEN j.t # "bool"
    ELSE j.t \in {"missing", "null", "str", "list", "bool"}

\* C11 (as claimed): a field whose key is missing from settings.json or whose
\* value is not of the field's type is loaded as the field's default, for
\* each of the ten fields, enabled included.
C11_PerFieldDefault ==
    (pc = "running" /\ last.op = "construct" /\ Loadable(settings_file)) =>
        \A key \in Keys :
            Malformed(key, settings_file.data[key]) =>
                compressor_settings[key] = DEFAULT_COMPRESSOR_SETTINGS[key]

\* the settings values the round trip is claimed for
ValidSettings(s) ==
    /\ AtLeastOne(s.ratio) /\ AtLeastOne(s.attack_ms) /\ AtLeastOne(s.release_ms)
    /\ s.cache_max_items >= 1

\* C12: for every valid settings value s the program holds,
\* compressor_settings_from_dict(compressor_settings_to_dict(s)) raises nothing
\* and equals s field for field, enabled and revision included.
C12_RoundTrip ==
    ValidSettings(compressor_settings) =>
        /\ ~compressor_settings_from_dict_raises(
               compressor_settings_to_dict(compressor_settings))
        /\ \A key \in Keys :
               compressor_settings_from_dict(
                   compressor_settings_to_dict(compressor_settings))[key]
                   = compressor_settings[key]

\* C12 witness: the window was restarted on the record closeEvent wrote, with
\* the compressor disabled, a revision above 0 and a ratio moved off its
\* default, and holds the settings it saved.
C12_Witness ==
    /\ pc = "running" /\ last.op = "construct"
    /\ Loadable(settings_file)
    /\ settings_file.data = compressor_settings_to_dict(compressor_settings)
    /\ ~compressor_settings.enabled
    /\ compressor_settings.revision >= 1
    /\ compressor_settings.ratio # DEFAULT_COMPRESSOR_SETTINGS.ratio

\* two settings values agree on the seven fields the engine reads
SameAudioFields(s, t) == \A key \in FloatKeys : s[key] = t[key]

\* C13: settings that agree on the seven audio fields have the same
\* signature whatever their enabled, cache_max_items and revision are, so a
\* step that leaves the seven fields alone leaves the memory cache key of every
\* clip as it was.
C13_SignatureFields ==
    /\ [](\A sig \in {CurrentSignature} :
             \A e \in BOOLEAN : \A c \in {1, MaxCap + 1} : \A r \in {0, MaxRevision + 1} :
                 _compressor_signature([compressor_settings EXCEPT
                     !.enabled = e, !.cache_max_items = c, !.revision = r]) = sig)
    /\ [][SameAudioFields(compressor_settings, compressor_settings') =>
             \A clip \in Clips :
                 cache_key(clip, _compressor_signature(compressor_settings'))
                     = cache_key(clip, _compressor_signature(compressor_settings))]_vars

\* C13 witness: after a dial change (revision above 0) a clip was processed,
\* enabled was toggled, and the memory cache entry is still the one addressed by
\* the current signature.
C13_Witness ==
    /\ last.op = "toggle"
    /\ compressor_settings.revision >= 1
    /\ \E clip \in Clips :
           cache_key(clip, CurrentSignature) \in StoreKeys(processed_cache.store)

\* the disk cache file of a request: _disk_cache_filename on the stat of the
\* clip's file and the signature of the settings
DiskKey(clip, settings, stamp) ==
    _disk_cache_filename(clip, stamp, _compressor_signature(settings))

\* C14: the disk cache file of a clip (a) differs for two signatures that
\* differ, (b) differs for two stamps of the source file that differ, (c) is the
\* same for the same path, stamp and signature whatever enabled,
\* cache_max_items and revision are; (d) when the stat of the source file fails
\* the file is named after the sentinel stamp and the play raises nothing (no
\* fallback to the raw clip, nothing escapes).
C14_DiskKeySensitivity ==
    /\ \A sig \in {CurrentSignature} : \A clip \in Clips :
          /\ \A attr \in DialAttrs : \A raw \in DialInputs(attr) :
                \A other \in {_compressor_signature(
                       [compressor_settings EXCEPT ![attr] = DialValue(attr, raw)])} :
                    other # sig =>
                        _disk_cache_filename(clip, files[clip], other)
                            # _disk_cache_filename(clip, files[clip], sig)
          /\ \A stamp \in 0..(MaxFileEdits + 2) :
                stamp # files[clip] =>
                    _disk_cache_filename(clip, stamp, sig)
                        # _disk_cache_filename(clip, files[clip], sig)
          /\ \A e \in BOOLEAN : \A c \in {1, MaxCap + 1} : \A r \in {0, MaxRevision + 1} :
                DiskKey(clip, [compressor_settings EXCEPT
                                  !.enabled = e, !.cache_max_items = c, !.revision = r],
                        files[clip])
                    = _disk_cache_filename(clip, files[clip], sig)
    /\ (PlayedEnabled(last) /\ last.fault = "none" /\ files[last.clip] = 0) =>
          /\ ~last.escaped
          /\ last.played # <<RawSound(last.clip, sound_index[last.clip])>>
          /\ last.engine_done =>
                 DiskKey(last.clip, compressor_settings, 0) \in DiskFiles(disk_cache)

\* C14 witness: a clip whose file was deleted after it was loaded is played;
\* the result is stored under the key of the sentinel stamp.
C14_Witness ==
    /\ PlayedEnabled(last) /\ last.fault = "none"
    /\ files[last.clip] = 0
    /\ last.engine_done
    /\ DiskKey(last.clip, compressor_settings, 0) \in DiskFiles(disk_cache)

\* C15: with the compressor enabled and a memory miss, a disk cache file
\* that is missing or fails to decode is taken as absent and the engine
\* processes the clip, and a failed write of the disk cache file is not fatal:
\* in each case the processed clip is put in the memory cache and played.
C15_DiskFailuresHarmless ==
    (/\ PlayedEnabled(last)
     /\ ~last.mem_hit /\ ~last.disk_hit
     /\ last.fault \in {"none", "load_error", "store_error", "store_partial",
                       "store_empty"}) =>
        /\ last.engine_done
        /\ last.played =
               <<process(RawSound(last.clip, sound_index[last.clip]), CurrentSignature)>>
        /\ InStore(processed_cache, cache_key(last.clip, CurrentSignature),
                   last.played[1])
        /\ ~last.escaped

\* C15 witness: the decoding of an existing disk cache file failed, the engine
\* ran and the processed clip was played.
C15_Witness ==
    /\ PlayedEnabled(last)
    /\ last.fault = "load_error"
    /\ last.engine_done
    /\ last.played[1].kind = "proc"

\* C16: a play made while enabled is false plays the raw clip, does not run
\* the engine and leaves the memory cache (entries and their order), the disk
\* cache and the settings as they were.
C16_DisabledFrame ==
    [][(last'.op = "play" /\ last'.in_index /\ ~compressor_settings.enabled) =>
          /\ last'.played = <<RawSound(last'.clip, sound_index[last'.clip])>>
          /\ ~last'.engine_done
          /\ last'.trace = <<>>
          /\ processed_cache' = processed_cache
          /\ disk_cache' = disk_cache
          /\ compressor_settings' = compressor_settings
          /\ settings_file' = settings_file
      ]_vars

\* C16 witness: a clip was played raw with the compressor disabled while both
\* caches held its processed result.
C16_Witness ==
    /\ last.op = "play" /\ last.in_index /\ ~last.enabled
    /\ ~compressor_settings.enabled
    /\ last.played = <<RawSound(last.clip, sound_index[last.clip])>>
    /\ cache_key(last.clip, CurrentSignature) \in StoreKeys(processed_cache.store)
    /\ DiskKey(last.clip, compressor_settings, files[last.clip]) \in DiskFiles(disk_cache)

\* C17: set_capacity(n) sets the capacity to max(1, n) and evicts from the
\* least recently used end until the size is within it: what remains is the
\* most recently touched entries in their order, and nothing is evicted from a
\* cache already within the new capacity.
C17_SetCapacity ==
    [][last'.op = "set_capacity" =>
          /\ processed_cache'.max_items = (IF last'.n >= 1 THEN last'.n ELSE 1)
          /\ processed_cache'.store =
                 LastN(processed_cache.store,
                       Min(Len(processed_cache.store), processed_cache'.max_items))
          /\ (Len(processed_cache.store) <= processed_cache'.max_items =>
                  processed_cache'.store = processed_cache.store)
      ]_vars

\* C17 witness: set_capacity(2) on a cache of four entries evicted the two
\* least recently touched ones and left the two most recently touched ones in
\* their order.
C17_Witness ==
    /\ pc = "cache"
    /\ last.op = "set_capacity" /\ last.n = 2
    /\ processed_cache.max_items = 2
    /\ Cardinality(last.removed) = 2
    /\ Len(touched) = 4
    /\ last.removed = {touched[1], touched[2]}
    /\ StoreOrder(processed_cache) = <<touched[3], touched[4]>>

\* C18: _clear_disk_cache removes every cache file but those whose removal
\* fails; a failed removal stops neither the removal of the other files nor
\* the handler around it, which ends with the revision bumped, the memory cache
\* empty and the settings saved, and raises nothing.
C18_ClearTolerates ==
    [][last'.op \in {"dial", "reset"} =>
          /\ disk_cache' = {e \in disk_cache : e.file \in last'.stuck}
          /\ processed_cache'.store = <<>>
          /\ compressor_settings'.revision =
                 (IF last'.op = "dial" THEN compressor_settings.revision
                  ELSE DEFAULT_COMPRESSOR_SETTINGS.revision) + 1
          /\ last'.save_ok =>
                 settings_file' = save_settings(settings_file, compressor_settings', "ok")
          /\ pc' = "running"
      ]_vars

\* C18 witness: a dial change met one file it could not remove; the other
\* file was removed and the handler ran to its end.
C18_Witness ==
    /\ last.op = "dial"
    /\ last.stuck # {} /\ last.removed # {}
    /\ DiskFiles(disk_cache) = last.stuck
    /\ processed_cache.store = <<>>
    /\ settings_file.data = compressor_settings_to_dict(compressor_settings)

\* C19 (as claimed): for each integer sample representation, a buffer that is
\* all zero or all at maximum amplitude, converted by _sound_to_float and back
\* by _float_to_sound, comes back with exactly the sample values it had.
C19_ConversionIdempotent ==
    (engine.op = "to_sound" /\ engine.arr \in ExtremeBuffers(engine.dtype)) =>
        engine.out = engine.arr

\* the gain of a frame does not exceed 1.0
AtMostUnity(gain) == gain \in {"one", "below"}

\* the reduction the curve gives where every step of it is exact in doubles:
\* whole dB and a ratio of 1, 2 or 4, in units of 1/10000 dB
ExactReduction(env, threshold, ratio) == (env - threshold) \div ratio - (env - threshold)

\* C20 (as claimed): a frame whose envelope is at or below the threshold has
\* gain exactly 1.0; any other frame has reduction_db =
\* (threshold_db + (env_db - threshold_db) / ratio) - env_db, which is <= 0, so
\* its gain does not exceed 1.0; threshold -18, ratio 4 and envelope -6 give a
\* reduction of -9 dB.
C20_GainCurve ==
    engine.op = "gain" =>
        /\ DLe(engine.env_db, DoubleOf(compressor_settings.threshold_db)) =>
               engine.frame.gain = UnityGain
        /\ ~DLe(engine.env_db, DoubleOf(compressor_settings.threshold_db)) =>
               /\ engine.frame.reduced
               /\ DLe(engine.frame.reduction_db, DZero(FALSE))
               /\ \A d \in WholeEnvelopes : \A r \in {1, 2, 4} :
                      (/\ engine.env_db = DoubleOf(Fin(d * Unit))
                       /\ compressor_settings.ratio = Fin(r * Unit)
                       /\ compressor_settings.threshold_db.k = "fin"
                       /\ compressor_settings.threshold_db.v % Unit = 0) =>
                          engine.frame.reduction_db =
                              DoubleOf(Fin(ExactReduction(
                                  d * Unit, compressor_settings.threshold_db.v, r)))
        /\ AtMostUnity(engine.frame.gain)
        /\ (/\ compressor_settings.threshold_db = Fin(-18 * Unit)
            /\ compressor_settings.ratio = Fin(4 * Unit)
            /\ engine.env_db = DoubleOf(Fin(-6 * Unit))) =>
               engine.frame.reduction_db = DoubleOf(Fin(-9 * Unit))

\* C21 (as claimed): for every sound that is not empty process returns a
\* sound with the sample type (kind and width), the number of frames and the
\* channel layout of the input; for an empty sound it returns the very sound
\* it was given.
C21_AlwaysReturnsShape ==
    engine.op = "process" =>
        /\ ~engine.result.raised
        /\ engine.result.sound.dtype = engine.input.dtype
        /\ engine.result.sound.shape = engine.input.shape
        /\ Size(engine.input.shape) = 0 => engine.result.sound = engine.input

\* C21 (amended): for a sound that is not empty process either raises (a gain
\* setting too large for 10 ** (db / 20)) or returns a sound with the sample
\* type, the number of frames and the channel layout of the input; for an
\* empty sound it never raises and returns the very sound it was given.
C21_ShapePreserved ==
    engine.op = "process" =>
        /\ engine.result.raised =>
               /\ Size(engine.input.shape) # 0
               /\ \E db \in {compressor_settings.input_gain_db,
                              compressor_settings.makeup_gain_db,
                              compressor_settings.output_ceiling_db} :
                      db.k = "fin" /\ db.v >= OverflowDb
        /\ ~engine.result.raised =>
               /\ engine.result.sound.dtype = engine.input.dtype
               /\ engine.result.sound.shape = engine.input.shape
               /\ Size(engine.input.shape) = 0 => engine.result.sound = engine.input

C21_Witness ==
    /\ engine.op = "process"
    /\ ~engine.result.raised
    /\ engine.input.dtype = [kind |-> "i", bits |-> 16]
    /\ engine.input.shape = <<MaxFrames, 2>>
    /\ engine.result.sound.id = "made"

\* C22: in every state of a ProcessedSoundCache, whatever sequence of get,
\* put, clear and set_capacity led to it and whatever capacity argument it was
\* constructed or resized with (zero and negative ones included), the
\* capacity is at least 1 and the store holds at most capacity entries.
C22_CacheBound ==
    /\ processed_cache.max_items >= 1
    /\ Len(processed_cache.store) <= processed_cache.max_items

C22_Witness ==
    /\ pc = "cache"
    /\ last.op = "set_capacity"
    /\ last.n < 0
    /\ processed_cache.max_items = 1
    /\ Len(processed_cache.store) = 1

\* settings.json holds exactly the settings s
Persisted(file, s) == Loadable(file) /\ file.data = compressor_settings_to_dict(s)

\* what a dial change or a reset leaves when no file removal failed, but for
\* settings.json: the memory cache empty, no cache file on disk, and for a
\* dial change the revision one higher and every settings field other than
\* the dial's attribute and revision as it was
ChangeEffect ==
    /\ processed_cache'.store = <<>>
    /\ disk_cache' = {}
    /\ last'.op = "dial" =>
           /\ compressor_settings'.revision = compressor_settings.revision + 1
           /\ \A k \in (DOMAIN compressor_settings) \ {last'.attr, "revision"} :
                  compressor_settings'[k] = compressor_settings[k]

\* C23 (as claimed): when _set_compressor_attr or reset_compressor_defaults
\* completes and no file removal failed, the memory cache is empty, the disk
\* cache holds no file and the settings have been persisted; a dial change
\* raises revision by exactly 1 and changes no other field than its attribute
\* and revision.
C23_AsClaimed ==
    [][(last'.op \in {"dial", "reset"} /\ ~updating_ui /\ last'.stuck = {}) =>
          /\ ChangeEffect
          /\ Persisted(settings_file', compressor_settings')
      ]_vars

\* C23 (amended): the same, the settings being persisted when writing
\* settings.json did not fail; when it failed, settings.json is as it was or
\* is left as a file that cannot be read back.
C23_SettingChangeEffect ==
    [][(last'.op \in {"dial", "reset"} /\ ~updating_ui /\ last'.stuck = {}) =>
          /\ ChangeEffect
          /\ last'.save_ok => Persisted(settings_file', compressor_settings')
          /\ ~last'.save_ok => settings_file' \in {settings_file, Unparsable}
      ]_vars

\* C23 witness: a dial change removed a cache file, none failing, and wrote
\* the new settings.
C23_Witness ==
    /\ last.op = "dial" /\ last.attr = "ratio"
    /\ last.stuck = {} /\ last.removed # {} /\ last.save_ok
    /\ processed_cache.store = <<>>
    /\ disk_cache = {}
    /\ Persisted(settings_file, compressor_settings)
    /\ compressor_settings.revision >= 1

\* C24: reload_sounds empties the memory cache (so that no entry made from a
\* clip of the old index remains) and replaces the sound index by what the
\* sound files hold now; it leaves every settings field, revision included,
\* settings.json and the capacity as they were and removes no disk cache file.
C24_ReloadFrame ==
    [][last'.op = "reload" =>
          /\ processed_cache'.store = <<>>
          /\ processed_cache'.max_items = processed_cache.max_items
          /\ sound_index' = [c \in Clips |-> files[c]]
          /\ compressor_settings' = compressor_settings
          /\ settings_file' = settings_file
          /\ disk_cache' = disk_cache
      ]_vars

\* C24 witness: a reload after a dial change and a rewritten sound file: the
\* index holds the new clip, the memory cache is empty and a disk cache file
\* is still there.
C24_Witness ==
    /\ last.op = "reload"
    /\ processed_cache.store = <<>>
    /\ compressor_settings.revision >= 1
    /\ \E c \in Clips : files[c] = 2 /\ sound_index[c] = 2
    /\ disk_cache # {}

\* C25: in every state of a session, every key (clip key, signature) in the
\* memory cache carries the signature of the current compressor settings.
C25_CurrentSignatureOnly ==
    \A sig \in {CurrentSignature} :
        \A i \in 1..Len(processed_cache.store) :
            processed_cache.store[i].key[2] = sig

\* C25 witness: after the settings changed, a play stored its result under
\* the new signature.
C25_Witness ==
    /\ pc = "running"
    /\ compressor_settings.ratio # DEFAULT_COMPRESSOR_SETTINGS.ratio
    /\ last.op = "play" /\ last.engine_done
    /\ Len(processed_cache.store) >= 1
    /\ cache_key(last.clip, CurrentSignature) \in StoreKeys(processed_cache.store)

\* C26: once the window is constructed, and after load_settings,
\* reset_compressor_defaults and _set_compressor_attr, the capacity of the
\* memory cache is compressor_settings.cache_max_items.
C26_CapacityTracksSetting ==
    pc \in {"constructing", "running", "crashed"} =>
        processed_cache.max_items = compressor_settings.cache_max_items

\* C26 witness: settings.json held a capacity other than the default, within
\* range or not, and the window loaded it.
C26_Witness ==
    /\ pc = "running" /\ last.op = "construct"
    /\ Loadable(settings_file)
    /\ settings_file.data["cache_max_items"] \in {J("int", -1), J("int", 5)}
    /\ processed_cache.max_items # DEFAULT_COMPRESSOR_SETTINGS.cache_max_items
    /\ processed_cache.max_items = compressor_settings.cache_max_items

\* C27: constructing the window (load_settings, _sync_compressor_controls)
\* leaves the settings exactly as loaded, revision included, also when a
\* loaded value is outside the range of its dial; it removes no disk cache
\* file, does not write settings.json, and _compressor_updating_ui is false
\* when it ends.
C27_StartupFrame ==
    [][(last'.op = "construct" /\ pc' = "running") =>
          /\ compressor_settings' =
                 (IF Loadable(settings_file)
                  THEN compressor_settings_from_dict(settings_file.data)
                  ELSE compressor_settings)
          /\ disk_cache' = disk_cache
          /\ settings_file' = settings_file
          /\ updating_ui' = FALSE
      ]_vars

\* C27 witness: a second session started on settings whose threshold is above
\* the range of its dial; the dial shows its maximum, the setting is as
\* loaded, and a play found the file the first session had written.
C27_Witness ==
    /\ budget.sessions = 2 /\ pc = "running"
    /\ compressor_settings.threshold_db = Fin(5 * Unit)
    /\ dials["threshold_db"] = DialMaxRaw("threshold_db")
    /\ last.op = "play" /\ last.disk_hit /\ ~last.engine_done

\* C28 (as claimed): once a play request has unmuted the system (remute
\* pending, the timer started), the system is eventually muted again with
\* remute_pending false; and check_remute never mutes while the mixer is busy.
C28_RemuteCompletes ==
    /\ (volume.remute_pending /\ ~volume.muted) ~>
           (volume.muted /\ ~volume.remute_pending)
    /\ [][(last'.op = "check_remute" /\ last'.busy) =>
              volume'.muted = volume.muted]_vars

=============================================================================
